---- MODULE Spec2Model ----
(***************************************************************************)
(* The log index and view engine of lnav: logfile_sub_source (the merged   *)
(* index lss_index, its filtered projection lss_filtered_index and the     *)
(* incremental rebuild_index) and the filter bookkeeping of                *)
(* textview_curses.                                                        *)
(*                                                                         *)
(* The logfile objects, the k-way merge tree, big_array and the header of  *)
(* logfile_sub_source are not part of the sources modelled here; what the  *)
(* index engine needs of them is modelled from the specification and is    *)
(* marked as such in the model map.                                        *)
(***************************************************************************)
EXTENDS Integers, Sequences, FiniteSets, TLC

(***************************************************************************)
(* Bounds of the model.                                                    *)
(***************************************************************************)
NumSlots == 2      \* attached files (slots 0 .. NumSlots-1)
MaxLines == 3      \* lines ever written to all files together
MaxTime  == 2      \* timestamps are 1 .. MaxTime
MaxWild  == 1      \* index entries a pass may take from beyond a file's end

MAX_LINES_PER_FILE == 16777216

Slots == 0 .. (NumSlots - 1)
Times == 1 .. MaxTime

\* rebuild_result of logfile_sub_source and of logfile
rr_no_change      == "rr_no_change"
rr_appended_lines == "rr_appended_lines"
rr_full_rebuild   == "rr_full_rebuild"
RR_NO_NEW_LINES   == "RR_NO_NEW_LINES"
RR_NEW_LINES      == "RR_NEW_LINES"
RR_NEW_ORDER      == "RR_NEW_ORDER"
RR_INVALID        == "RR_INVALID"

VARIABLES
    lf,                  \* lf[s]: the lines the logfile object of slot s holds
    pend,                \* pend[s]: lines written to the file, not yet observed
    cut,                 \* cut[s]: -1, or the lines left by a truncation
    gone,                \* the slots whose file object is gone (NULL)
    written,             \* lines written so far (bounds the model)
    ld_lines_indexed,    \* per slot: lines already folded into lss_index
    lss_index,           \* GlobalIndex: sequence of content_line_t
    lss_filtered_index,  \* FilteredIndex: positions into lss_index (0-based)
    lss_force_rebuild,
    paused,              \* tss_view->is_paused()
    crashed,             \* the process died on an invalid memory access
    retval,              \* what the last rebuild_index returned ("none" before)
    view_call,           \* the search action the last rebuild_index invoked
    delegate_calls,      \* IndexDelegate calls made by the last operation
    last_op,             \* name of the last operation
    pre,                 \* lss_index, lss_filtered_index, ld_lines_indexed
                         \* as they were when the last rebuild_index began
    tfs,                 \* tfs[s]: the logfile_filter_state of slot s
    filter_enabled,      \* the filters that are enabled
    lss_min_log_level,   \* extra filter: the minimum level shown
    lss_min_log_time,    \* extra filter: the earliest time shown
    universe,            \* which kinds of lines the files are written with
    tc_top,              \* textview_curses: the row at the top of the view
    tc_line_count,       \* rows of the view's text source
    tc_last_search,      \* the regex text of the last execute_search
    tc_search_child,     \* <<>> (null) or <<code>>: the grep_highlighter
    tc_source_search_child, \* <<>> (null) or <<code>>: the source's grep
    tc_highlights,       \* the compiled patterns under {PREVIEW, "search"}
    gp_queue,            \* requests queued in the search child's grep_proc
    gp_running,          \* <<>> or <<request>>: the request being searched
    tc_searching,        \* grep_begin calls not yet ended
    bm_search,           \* tc_bookmarks[&BM_SEARCH]: rows with a match
    search_log,          \* the strongest log call of the last execute_search
    search_op,           \* name of the last operation on the view's search
    llh_history,         \* log_location_history: content lines, oldest first
    lh_history_position, \* how far the cursor is from the newest entry
    lh_ret,              \* <<>> (nullopt) or <<row>>: what back/forward gave
    lh_op,               \* the last location-history operation, its input,
                         \* the cursor it began with and the rows it saw
    tc_bookmarks,        \* the view's bookmarks other than BM_SEARCH
    lss_token,           \* the row text_value_for_line was last called for
                         \* and the renderer state it left
    con_line,            \* a file index and a line index, and the content
                         \* line stored for them (<<>>: none yet); where
                         \* find is followed, the last call of find
    tf_op                \* the last call of a text_filter function on the
                         \* filter state of slot 0

logVars == <<lf, pend, cut, gone, written, ld_lines_indexed, lss_index,
             lss_filtered_index, lss_force_rebuild, paused, crashed, retval,
             view_call, delegate_calls, last_op, pre, tfs, filter_enabled,
             lss_min_log_level, lss_min_log_time, universe>>

searchVars == <<tc_top, tc_line_count, tc_last_search, tc_search_child,
                tc_source_search_child, tc_highlights, gp_queue, gp_running,
                tc_searching, bm_search, search_log, search_op>>

histVars == <<llh_history, lh_history_position, lh_ret, lh_op>>

viewVars == <<tc_bookmarks, lss_token>>

unitVars == <<con_line, tf_op>>

vars == <<logVars, searchVars, histVars, viewVars, unitVars>>

(***************************************************************************)
(* Lines and content lines.                                                *)
(***************************************************************************)
Line(t, cont, hit, lvl) == [t |-> t, cont |-> cont, hit |-> hit, lvl |-> lvl]

\* a comparison that puts the later line first
LineLess_later(a, b) == b.t < a.t

\* logline::operator< as used by the merge and by the tail test
LineLess(a, b) == a.t < b.t

\* a content line whose slots are one line short
ContentLine_short(file_index, line_index) ==
    file_index * (MAX_LINES_PER_FILE - 1) + line_index

\* content_line_t(file_index * MAX_LINES_PER_FILE + line_index)
ContentLine(file_index, line_index) ==
    file_index * MAX_LINES_PER_FILE + line_index

\* find_data: the slot and the line number a content line decodes to
ClSlot(cl) == cl \div MAX_LINES_PER_FILE
ClLine(cl) == cl % MAX_LINES_PER_FILE

\* the content line names a line its file holds
ClValid(lfs, cl) == ClSlot(cl) \in Slots /\ ClLine(cl) < Len(lfs[ClSlot(cl)])
ClLogline(lfs, cl) == lfs[ClSlot(cl)][ClLine(cl) + 1]

IsSortedByTime(q) == \A i, j \in 1 .. Len(q) : i < j => q[i].t <= q[j].t

\* the elements of a set of numbers in increasing order
RECURSIVE SetToSeq(_)
SetToSeq(S) ==
    IF S = {} THEN <<>>
    ELSE LET m == CHOOSE x \in S : \A y \in S : x <= y
         IN <<m>> \o SetToSeq(S \ {m})


(***************************************************************************)
(* FilterState: text_filter::revert_to_last, add_line, end_of_message.     *)
(* A logfile_filter_state is a record; lf_index of the filter is p.  The   *)
(* field failed records a require() that did not hold or a write to        *)
(* tfs_mask past its end.                                                  *)
(***************************************************************************)
Preds == {0, 1}            \* filter 0 is an INCLUDE filter, filter 1 an EXCLUDE filter
FilterType(p) == IF p = 0 THEN "INCLUDE" ELSE "EXCLUDE"

\* size_t arithmetic wraps
SIZE_T_MOD == 1073741824
USub(x, y) == (x - y + SIZE_T_MOD) % SIZE_T_MOD

NewFilterState ==
    [tfs_filter_count           |-> [p \in Preds |-> 0],
     tfs_filter_hits            |-> [p \in Preds |-> 0],
     tfs_message_matched        |-> [p \in Preds |-> FALSE],
     tfs_lines_for_message      |-> [p \in Preds |-> 0],
     tfs_last_message_matched   |-> [p \in Preds |-> FALSE],
     tfs_last_lines_for_message |-> [p \in Preds |-> 0],
     tfs_mask                   |-> <<>>,
     failed                     |-> FALSE]

\* tfs_mask[line_number] |= mask, tfs_mask[line_number] &= ~mask
MaskSet(lfs, line_number, bits) ==
    IF line_number < Len(lfs.tfs_mask)
    THEN [lfs EXCEPT !.tfs_mask[line_number + 1] = @ \cup bits]
    ELSE [lfs EXCEPT !.failed = TRUE]
MaskClear(lfs, line_number, bits) ==
    IF line_number < Len(lfs.tfs_mask)
    THEN [lfs EXCEPT !.tfs_mask[line_number + 1] = @ \ bits]
    ELSE [lfs EXCEPT !.failed = TRUE]

\* the loop of revert_to_last: lpc = 1 .. n
RECURSIVE revert_loop(_, _, _)
revert_loop(lfs, p, n) ==
    IF n = 0 THEN lfs
    ELSE LET a == IF lfs.tfs_message_matched[p]
                  THEN [lfs EXCEPT !.tfs_filter_hits[p] = USub(@, 1)]
                  ELSE lfs
             b == [a EXCEPT !.tfs_filter_count[p] = USub(@, 1)]
         IN revert_loop(MaskClear(b, b.tfs_filter_count[p], {p}), p, n - 1)

\* a revert_to_last that keeps every line of the message
revert_to_last_whole(lfs, p, rollback_size) ==
    IF lfs.tfs_lines_for_message[p] # 0 THEN [lfs EXCEPT !.failed = TRUE]
    ELSE
    LET a == [lfs EXCEPT
                !.tfs_message_matched[p]   = lfs.tfs_last_message_matched[p],
                !.tfs_lines_for_message[p] = lfs.tfs_last_lines_for_message[p]]
        b == revert_loop(a, p, a.tfs_lines_for_message[p])
    IN IF b.tfs_lines_for_message[p] = 0
       THEN [b EXCEPT !.tfs_message_matched[p] = FALSE]
       ELSE b

revert_to_last(lfs, p, rollback_size) ==
    IF lfs.tfs_lines_for_message[p] # 0 THEN [lfs EXCEPT !.failed = TRUE]
    ELSE
    LET a == [lfs EXCEPT
                !.tfs_message_matched[p]   = lfs.tfs_last_message_matched[p],
                !.tfs_lines_for_message[p] = lfs.tfs_last_lines_for_message[p]]
        b == revert_loop(a, p, a.tfs_lines_for_message[p])
        c == IF b.tfs_lines_for_message[p] > 0
             THEN IF b.tfs_lines_for_message[p] >= rollback_size
                  THEN [b EXCEPT !.tfs_lines_for_message[p] = @ - rollback_size]
                  ELSE [b EXCEPT !.failed = TRUE]
             ELSE b
    IN IF c.tfs_lines_for_message[p] = 0
       THEN [c EXCEPT !.tfs_message_matched[p] = FALSE]
       ELSE c

\* the loop of end_of_message: lpc = 1 .. n; size is tfs_logfile->size()
RECURSIVE eom_loop(_, _, _, _)
eom_loop(lfs, p, n, size) ==
    IF n = 0 THEN lfs
    ELSE IF ~(lfs.tfs_filter_count[p] <= size) THEN [lfs EXCEPT !.failed = TRUE]
    ELSE LET bits == IF lfs.tfs_message_matched[p] THEN {p} ELSE {}
             a == MaskSet(lfs, lfs.tfs_filter_count[p], bits)
             b == [a EXCEPT !.tfs_filter_count[p] = (@ + 1) % SIZE_T_MOD]
             c == IF b.tfs_message_matched[p]
                  THEN [b EXCEPT !.tfs_filter_hits[p] = (@ + 1) % SIZE_T_MOD]
                  ELSE b
         IN eom_loop(c, p, n - 1, size)

\* an end_of_message that does not reset the count of lines of the message
end_of_message_keep(lfs, p, size) ==
    LET a == eom_loop(lfs, p, lfs.tfs_lines_for_message[p], size)
    IN [a EXCEPT
          !.tfs_last_message_matched[p]   = a.tfs_message_matched[p],
          !.tfs_last_lines_for_message[p] = a.tfs_lines_for_message[p],
          !.tfs_message_matched[p]        = FALSE]

end_of_message(lfs, p, size) ==
    LET a == eom_loop(lfs, p, lfs.tfs_lines_for_message[p], size)
    IN [a EXCEPT
          !.tfs_last_message_matched[p]   = a.tfs_message_matched[p],
          !.tfs_last_lines_for_message[p] = a.tfs_lines_for_message[p],
          !.tfs_message_matched[p]        = FALSE,
          !.tfs_lines_for_message[p]      = 0]

\* an add_line that counts the line before it ends the message
add_line_early(lfs, p, ll, size) ==
    LET a == [lfs EXCEPT
                !.tfs_message_matched[p]   = @ \/ (p \in ll.hit),
                !.tfs_lines_for_message[p] = @ + 1]
    IN IF ~ll.cont THEN end_of_message(a, p, size) ELSE a

\* an add_line that keeps the match of the last line only
add_line_last(lfs, p, ll, size) ==
    LET a == IF ~ll.cont THEN end_of_message(lfs, p, size) ELSE lfs
    IN [a EXCEPT
          !.tfs_message_matched[p]   = p \in ll.hit,
          !.tfs_lines_for_message[p] = @ + 1]

\* ll is the line; the filter matches it iff p is among ll.hit
add_line(lfs, p, ll, size) ==
    LET match_state == p \in ll.hit
        a == IF ~ll.cont THEN end_of_message(lfs, p, size) ELSE lfs
    IN [a EXCEPT
          !.tfs_message_matched[p]   = a.tfs_message_matched[p] \/ match_state,
          !.tfs_lines_for_message[p] = @ + 1]


(***************************************************************************)
(* The logfile of a slot and its observer (line_filter_observer).          *)
(***************************************************************************)
PredSeq == SetToSeq(Preds)

\* logline_restart: every filter reverts to its last message
RECURSIVE restart_loop(_, _, _)
restart_loop(lfs, ps, rollback_size) ==
    IF ps = <<>> THEN lfs
    ELSE restart_loop(revert_to_last(lfs, Head(ps), rollback_size),
                      Tail(ps), rollback_size)
logline_restart(lfs, rollback_size) == restart_loop(lfs, PredSeq, rollback_size)

\* tfs_mask.resize(newsize), new entries zeroed
resize(lfs, newsize) ==
    [lfs EXCEPT !.tfs_mask =
        [i \in 1 .. newsize |-> IF i <= Len(lfs.tfs_mask) THEN lfs.tfs_mask[i] ELSE {}]]

\* one line offered to every filter that has not counted it yet
RECURSIVE new_line_filters(_, _, _, _, _)
new_line_filters(lfs, ps, ll, offset, size) ==
    IF ps = <<>> THEN lfs
    ELSE LET p == Head(ps)
             a == IF offset >= lfs.tfs_filter_count[p]
                  THEN add_line(lfs, p, ll, size)
                  ELSE lfs
         IN new_line_filters(a, Tail(ps), ll, offset, size)

\* logline_new_lines for the lines all[from + 1 .. Len(all)]
RECURSIVE new_lines_loop(_, _, _)
new_lines_loop(lfs, all, from) ==
    IF from >= Len(all) THEN lfs
    ELSE new_lines_loop(
            new_line_filters(lfs, PredSeq, all[from + 1], from, Len(all)),
            all, from + 1)
logline_new_lines(lfs, all, from) == new_lines_loop(resize(lfs, Len(all)), all, from)

\* logline_eof: every filter closes its message
RECURSIVE eof_loop(_, _, _)
eof_loop(lfs, ps, size) ==
    IF ps = <<>> THEN lfs
    ELSE eof_loop(end_of_message(lfs, Head(ps), size), Tail(ps), size)
logline_eof(lfs, size) == eof_loop(lfs, PredSeq, size)

\* logfile::rebuild_index of slot s: the result, the lines the logfile holds
\* afterwards and the filter state its observer leaves.  reorder: the logfile
\* reports new lines that are out of time order as RR_NEW_ORDER.
LogfileRebuild(s, reorder) ==
    IF cut[s] >= 0 THEN
        [res |-> RR_INVALID, lines |-> SubSeq(lf[s], 1, cut[s]), fs |-> tfs[s]]
    ELSE IF pend[s] # <<>> THEN
        LET all      == lf[s] \o pend[s]
            rollback == IF lf[s] = <<>> THEN 0 ELSE 1
            a == logline_restart(tfs[s], rollback)
            b == logline_new_lines(a, all, Len(lf[s]) - rollback)
            c == logline_eof(b, Len(all))
        IN [res   |-> IF reorder /\ ~IsSortedByTime(all)
                      THEN RR_NEW_ORDER ELSE RR_NEW_LINES,
            lines |-> all, fs |-> c]
    ELSE [res |-> RR_NO_NEW_LINES, lines |-> lf[s], fs |-> tfs[s]]


(***************************************************************************)
(* Filters as the index consults them.                                     *)
(***************************************************************************)
\* filter_stack::get_enabled_mask
filter_in_mask(enabled)  == {p \in enabled : FilterType(p) = "INCLUDE"}
filter_out_mask(enabled) == {p \in enabled : FilterType(p) = "EXCLUDE"}

\* line_filter_observer::excluded
excluded(lfs, in_mask, out_mask, line_number) ==
    LET m == lfs.tfs_mask[line_number + 1]
        filtered_in  == (in_mask = {}) \/ (m \cap in_mask # {})
        filtered_out == m \cap out_mask # {}
    IN ~filtered_in \/ filtered_out

\* check_extra_filters: the minimum log level and the earliest time
\* (extra is the record of lss_min_log_level and lss_min_log_time)
check_extra_filters(extra, ll) ==
    /\ extra.min_level <= ll.lvl
    /\ ~(ll.t < extra.min_time)

\* the line of content line cl and its mask can be read
Readable(lines, fss, cl) ==
    /\ ClValid(lines, cl)
    /\ ClSlot(cl) \notin gone
    /\ ClLine(cl) < Len(fss[ClSlot(cl)].tfs_mask)

\* a test that consults the extra filters only
Accepted_any(lines, fss, enabled, extra, cl) ==
    check_extra_filters(extra, ClLogline(lines, cl))

\* the test both rebuild_index and text_filters_changed apply to a position
Accepted(lines, fss, enabled, extra, cl) ==
    /\ ~excluded(fss[ClSlot(cl)], filter_in_mask(enabled),
                 filter_out_mask(enabled), ClLine(cl))
    /\ check_extra_filters(extra, ClLogline(lines, cl))

\* The loop that pushes the accepted positions from..Len(idx)-1 onto the
\* filtered index, with the delegate's index_line calls.  A position whose
\* line lies beyond its file is an invalid read: it may be taken or not
\* (wild is the set of positions taken), or the process dies at the first.
FilterLoop(lines, fss, enabled, extra, idx, filt, from) ==
    LET all  == {i \in from .. (Len(idx) - 1) : TRUE}
        bad  == {i \in all : ~Readable(lines, fss, idx[i + 1])}
        good == {i \in all \ bad :
                    Accepted(lines, fss, enabled, extra, idx[i + 1])}
        upto == {i \in good : \A b \in bad : i < b}
        Calls(S) == [k \in 1 .. Cardinality(S) |-> <<"index_line", SetToSeq(S)[k]>>]
    IN  { [filt |-> filt \o SetToSeq(good \cup wild),
           calls |-> Calls(good \cup wild), crashed |-> FALSE] : wild \in SUBSET bad }
        \cup
        (IF bad = {} THEN {}
         ELSE {[filt |-> filt \o SetToSeq(upto), calls |-> Calls(upto),
                crashed |-> TRUE]})


(***************************************************************************)
(* logfile_sub_source::rebuild_index.                                      *)
(***************************************************************************)
never_force_off == FALSE

never_force == TRUE

\* big_array::reserve reports whether it allocated: an input of the call
Reserve(grew) == grew

\* a merge that yields the lowest slot, whatever its head line
MergeTop_lowest(lines, li, P) == CHOOSE s \in P : \A r \in P : s <= r

\* kmerge_tree_c over the participating slots P: get_top yields the slot
\* whose head line is least (of equal heads, the lower slot).
MergeTop(lines, li, P) ==
    CHOOSE s \in P : \A r \in P \ {s} :
        \/ LineLess(lines[s][li[s] + 1], lines[r][li[r] + 1])
        \/ /\ ~LineLess(lines[r][li[r] + 1], lines[s][li[s] + 1])
           /\ s < r

\* The merge loop.  P are the slots added to the merge.  A slot whose
\* ld_lines_indexed lies beyond its file's end is read out of bounds: its
\* head compares in any way, or the process dies.
\* a merge that runs until every file is consumed
RECURSIVE MergeAll(_, _, _, _)
MergeAll(lines, P, idx, li) ==
    LET real == {s \in P : li[s] < Len(lines[s])}
        s    == MergeTop(lines, li, real)
    IN IF real = {} THEN {[idx |-> idx, li |-> li, crashed |-> FALSE]}
       ELSE MergeAll(lines, P, Append(idx, ContentLine(s, li[s])),
                     [li EXCEPT ![s] = @ + 1])

RECURSIVE MergeLoop(_, _, _, _)
MergeLoop(lines, P, idx, li) ==
    LET real == {s \in P : li[s] < Len(lines[s])}
        wild == P \ real
        tops == (IF real = {} THEN {} ELSE {MergeTop(lines, li, real)})
                \cup (IF Len(idx) < MaxLines + MaxWild THEN wild ELSE {})
        Take(s) ==
            LET file_index == s
                line_index == li[s]
                li2  == [li EXCEPT ![s] = @ + 1]
                idx2 == Append(idx, ContentLine(file_index, line_index))
            IN IF s \in real /\ line_index + 1 = Len(lines[s])
               THEN {[idx |-> idx2, li |-> li2, crashed |-> FALSE]}
               ELSE MergeLoop(lines, P, idx2, li2)
    IN IF P = {} THEN {[idx |-> idx, li |-> li, crashed |-> FALSE]}
       ELSE UNION {Take(s) : s \in tops}
            \cup (IF wild = {} THEN {}
                  ELSE {[idx |-> idx, li |-> li, crashed |-> TRUE]})

\* logline_cmp orders content lines by time, equal times by content line
ClBefore(lines, a, b) ==
    \/ LineLess(ClLogline(lines, a), ClLogline(lines, b))
    \/ /\ ~LineLess(ClLogline(lines, b), ClLogline(lines, a))
       /\ a < b

RECURSIVE SortCl(_, _)
SortCl(lines, S) ==
    IF S = {} THEN <<>>
    ELSE LET m == CHOOSE x \in S : \A y \in S \ {x} : ClBefore(lines, x, y)
         IN <<m>> \o SortCl(lines, S \ {m})

\* the full sort: every line of every file, sorted
FullSort(lines) ==
    SortCl(lines, UNION {{ContentLine(s, n) : n \in 0 .. (Len(lines[s]) - 1)}
                         : s \in Slots \ gone})

\* the slots whose poll reads a line that does not exist
\* (lf[ld_lines_indexed] or the line of lss_index.back())
LinesAt(obs, s) == [x \in Slots |-> IF x <= s THEN obs[x].lines ELSE lf[x]]

\* a poll that takes the logfile's result as it is reported
PollResult_reported(obs, s) == obs[s].res

PollResult(obs, s) ==
    IF obs[s].res = RR_NO_NEW_LINES /\ ld_lines_indexed[s] < Len(obs[s].lines)
    THEN RR_NEW_LINES ELSE obs[s].res

PollWild(obs) ==
    {s \in Slots \ gone :
        /\ ~paused
        /\ PollResult(obs, s) = RR_NEW_LINES
        /\ lss_index # <<>>
        /\ \/ ~(ld_lines_indexed[s] < Len(obs[s].lines))
           \/ ~ClValid(LinesAt(obs, s), lss_index[Len(lss_index)])
           \/ ClSlot(lss_index[Len(lss_index)]) \in gone}

\* one round of the loop over lss_files
PollSlot(acc, s, obs, wl) ==
    LET counted == [acc EXCEPT !.file_count = @ + 1,
                               !.total_lines = @ + Len(obs[s].lines)]
        rebuild == PollResult(obs, s)
        older ==
            IF s \in PollWild(obs) THEN s \in wl
            ELSE LineLess(obs[s].lines[ld_lines_indexed[s] + 1],
                          ClLogline(LinesAt(obs, s), lss_index[Len(lss_index)]))
    IN IF s \in gone THEN
           (IF ld_lines_indexed[s] > 0
            THEN [acc EXCEPT !.force = TRUE, !.retval = rr_full_rebuild]
            ELSE acc)
       ELSE IF paused THEN counted
       ELSE IF rebuild = RR_NO_NEW_LINES THEN counted
       ELSE IF rebuild = RR_NEW_LINES THEN
           LET a == IF counted.retval = rr_no_change
                    THEN [counted EXCEPT !.retval = rr_appended_lines]
                    ELSE counted
           IN IF lss_index # <<>> /\ older
              THEN [a EXCEPT !.force = TRUE, !.retval = rr_full_rebuild]
              ELSE a
       ELSE [counted EXCEPT !.retval = rr_full_rebuild, !.force = TRUE]

RECURSIVE PollLoop(_, _, _, _)
PollLoop(acc, s, obs, wl) ==
    IF s = NumSlots THEN acc
    ELSE PollLoop(PollSlot(acc, s, obs, wl), s + 1, obs, wl)

\* a view that searches anew whatever the result
SearchAction_redo(r) ==
    IF r = rr_no_change THEN "none" ELSE "redo_search"

\* the search action of the view that goes with a result
SearchAction(r) ==
    IF r = rr_full_rebuild THEN "redo_search"
    ELSE IF r = rr_appended_lines THEN "search_new_data"
    ELSE "none"

ExtraFilters ==
    [min_level |-> lss_min_log_level, min_time |-> lss_min_log_time]

\* The outcomes of one call.  obs: what each logfile reports when polled
\* (its own state when the view is paused); grew: what reserve returns;
\* wl: the out-of-bounds timestamp tests that come out as 'older'.
rebuild_index(obs, grew, wl) ==
    LET lines  == [s \in Slots |-> obs[s].lines]
        fss    == [s \in Slots |-> obs[s].fs]
        force0 == lss_force_rebuild
        acc0   == [retval |-> IF force0 THEN rr_full_rebuild ELSE rr_no_change,
                   force |-> force0, file_count |-> 0, total_lines |-> 0]
        acc    == PollLoop(acc0, 0, obs, wl)
        force  == acc.force \/ Reserve(grew)
        full_sort == force /\ ~never_force
        li1   == IF full_sort THEN [s \in Slots |-> 0] ELSE ld_lines_indexed
        idx1  == IF full_sort THEN <<>> ELSE lss_index
        filt1 == IF full_sort THEN <<>> ELSE lss_filtered_index
        start_size == Len(idx1)
        extended ==
            IF full_sort
            THEN {[idx |-> FullSort(lines), li |-> li1, crashed |-> FALSE]}
            ELSE MergeLoop(lines,
                           {s \in Slots \ gone : li1[s] # Len(lines[s])},
                           idx1, li1)
        retval1 == IF acc.retval = rr_full_rebuild /\ never_force
                   THEN rr_appended_lines ELSE acc.retval
        Base == [lf |-> lines, tfs |-> fss, li |-> li1, idx |-> idx1,
                 filt |-> filt1, calls |-> <<>>, retval |-> "none",
                 view_call |-> "none", crashed |-> FALSE]
        Died(m) == [Base EXCEPT !.li = m.li, !.idx = m.idx, !.crashed = TRUE]
        Done(m, f) ==
            [Base EXCEPT
                !.li = m.li, !.idx = m.idx, !.filt = f.filt,
                !.calls = (IF start_size = 0 THEN <<<<"index_start", 0>>>> ELSE <<>>)
                          \o f.calls
                          \o (IF f.crashed THEN <<>> ELSE <<<<"index_complete", 0>>>>),
                !.retval = IF f.crashed THEN "none" ELSE retval1,
                !.view_call = IF f.crashed THEN "none" ELSE SearchAction(retval1),
                !.crashed = f.crashed]
    IN  (IF PollWild(obs) # {} THEN {[Base EXCEPT !.crashed = TRUE]} ELSE {})
        \cup
        (IF acc.retval # rr_no_change \/ force
         THEN UNION { IF m.crashed THEN {Died(m)}
                      ELSE { Done(m, f) :
                             f \in FilterLoop(lines, fss, filter_enabled,
                                              ExtraFilters, m.idx, filt1,
                                              start_size) }
                      : m \in extended }
         ELSE {[Base EXCEPT !.retval = retval1,
                            !.view_call = SearchAction(retval1)]})


(***************************************************************************)
(* The operations.                                                         *)
(***************************************************************************)
\* logline levels that are bookmarked (log_level.hh)
LEVEL_WARNING  == 2
LEVEL_ERROR    == 3
LEVEL_CRITICAL == 4
LEVEL_FATAL    == 5

\* the filter settings a user may choose: the enabled filters, the minimum
\* level (LEVEL_UNKNOWN) and the earliest time (none, or the second instant)
FilterChoices(u) ==
    IF u = "time"
    THEN [enabled : {{}}, min_level : {0}, min_time : {0, 2}]
    ELSE IF u = "history"
    THEN [enabled : {{}, {1}}, min_level : {0}, min_time : {0}]
    ELSE IF u = "marks"
    THEN [enabled : {{}}, min_level : {0, LEVEL_ERROR}, min_time : {0}]
    ELSE [enabled : SUBSET Preds, min_level : {0}, min_time : {0}]

LineSet(u) ==
    IF u = "time"
    THEN {Line(t, FALSE, {}, 1) : t \in Times}
    ELSE IF u = "view"
    THEN {Line(1, FALSE, {}, 1)}
    ELSE IF u = "filter calls"
    THEN {Line(1, c, h, 1) : c \in BOOLEAN, h \in {{}, Preds}}
    ELSE IF u = "marks"
    THEN {Line(1, FALSE, {}, lvl) :
             lvl \in {1, LEVEL_WARNING, LEVEL_ERROR, LEVEL_CRITICAL,
                      LEVEL_FATAL}}
         \cup {Line(1, TRUE, {}, lvl) : lvl \in {LEVEL_WARNING, LEVEL_ERROR}}
    ELSE {Line(1, c, h, 1) : c \in BOOLEAN, h \in SUBSET Preds}

\* the slots whose files are written: one file of messages, or all
WriteSlots(u) == IF u = "message" THEN {0} ELSE Slots

NoPre == [idx |-> <<>>, filt |-> <<>>, li |-> [s \in Slots |-> 0],
          res |-> [s \in Slots |-> "none"]]

\* an operation other than rebuild_index forgets the last call's record
Forget ==
    /\ last_op' = "other"
    /\ retval' = "none"
    /\ view_call' = "none"
    /\ delegate_calls' = <<>>
    /\ pre' = NoPre

LogInit(u) ==
    /\ lf = [s \in Slots |-> <<>>]
    /\ pend = [s \in Slots |-> <<>>]
    /\ cut = [s \in Slots |-> -1]
    /\ gone = {}
    /\ written = 0
    /\ ld_lines_indexed = [s \in Slots |-> 0]
    /\ lss_index = <<>>
    /\ lss_filtered_index = <<>>
    /\ lss_force_rebuild = FALSE
    /\ paused = FALSE
    /\ crashed = FALSE
    /\ retval = "none"
    /\ view_call = "none"
    /\ delegate_calls = <<>>
    /\ last_op = "init"
    /\ pre = NoPre
    /\ tfs = [s \in Slots |-> NewFilterState]
    /\ filter_enabled = {}
    /\ lss_min_log_level = 0
    /\ lss_min_log_time = 0
    /\ universe = u

\* textview_curses as constructed, over a text source of n rows
SearchInit(n) ==
    /\ tc_top = 0
    /\ tc_line_count = n
    /\ tc_last_search = <<>>
    /\ tc_search_child = <<>>
    /\ tc_source_search_child = <<>>
    /\ tc_highlights = {}
    /\ gp_queue = <<>>
    /\ gp_running = <<>>
    /\ tc_searching = 0
    /\ bm_search = {}
    /\ search_log = "none"
    /\ search_op = [name |-> "init", regex |-> <<>>, fresh |-> FALSE]

\* log_location_history as constructed
HistInit ==
    /\ llh_history = <<>>
    /\ lh_history_position = 0
    /\ lh_ret = <<>>
    /\ lh_op = [name |-> "init", top |-> 0, pos |-> 0, rows |-> <<>>]

\* no bookmark is set and no row was rendered
NoToken == [row |-> 0, file |-> -1, line |-> 0, value |-> <<>>,
            flags |-> "none", attrs |-> <<>>, aborted |-> FALSE]
ViewInit ==
    /\ tc_bookmarks = [BM_FILES |-> {}, BM_WARNINGS |-> {}, BM_ERRORS |-> {}]
    /\ lss_token = NoToken

\* no content line is being built
AddrInit == con_line = [file_index |-> 0, line_index |-> 0, stored |-> <<>>]

\* no text_filter function was called
NoCall == [name |-> "none", p |-> 0, k |-> 0, offset |-> 0, before |-> <<>>]
FilterOpInit == tf_op = NoCall

InitIn(u) ==
    /\ LogInit(u)
    /\ SearchInit(0)
    /\ HistInit
    /\ ViewInit
    /\ AddrInit
    /\ FilterOpInit

Init == InitIn("time")

\* a line is written to the file of slot s
FileAppend ==
    /\ ~crashed
    /\ written < MaxLines
    /\ \E s \in WriteSlots(universe) \ gone, l \in LineSet(universe) :
          /\ cut[s] < 0
          /\ (l.cont => lf[s] \o pend[s] # <<>>)
          /\ pend' = [pend EXCEPT ![s] = Append(@, l)]
    /\ written' = written + 1
    /\ Forget
    /\ UNCHANGED <<searchVars, histVars, viewVars, unitVars>>
    /\ UNCHANGED <<lf, cut, gone, ld_lines_indexed, lss_index, lss_filtered_index,
                   lss_force_rebuild, paused, crashed, tfs, filter_enabled,
                   lss_min_log_level, lss_min_log_time, universe>>

\* the file of slot s is truncated (or replaced by a shorter one)
FileTruncate ==
    /\ ~crashed
    /\ \E s \in Slots \ gone :
          /\ cut[s] < 0
          /\ pend[s] = <<>>
          /\ \E k \in 0 .. (Len(lf[s]) - 1) : cut' = [cut EXCEPT ![s] = k]
    /\ Forget
    /\ UNCHANGED <<searchVars, histVars, viewVars, unitVars>>
    /\ UNCHANGED <<lf, pend, gone, written, ld_lines_indexed, lss_index,
                   lss_filtered_index, lss_force_rebuild, paused, crashed, tfs,
                   filter_enabled, lss_min_log_level, lss_min_log_time, universe>>

\* the file of slot s is closed: its logfile_data keeps no file object
FileGone ==
    /\ ~crashed
    /\ \E s \in Slots \ gone :
          /\ gone' = gone \cup {s}
          /\ pend' = [pend EXCEPT ![s] = <<>>]
          /\ cut' = [cut EXCEPT ![s] = -1]
    /\ Forget
    /\ UNCHANGED <<searchVars, histVars, viewVars, unitVars>>
    /\ UNCHANGED <<lf, written, ld_lines_indexed, lss_index,
                   lss_filtered_index, lss_force_rebuild, paused, crashed, tfs,
                   filter_enabled, lss_min_log_level, lss_min_log_time, universe>>

\* the view is paused or resumed
SetPaused ==
    /\ ~crashed
    /\ paused' = ~paused
    /\ Forget
    /\ UNCHANGED <<searchVars, histVars, viewVars, unitVars>>
    /\ UNCHANGED <<lf, pend, cut, gone, written, ld_lines_indexed, lss_index,
                   lss_filtered_index, lss_force_rebuild, crashed, tfs,
                   filter_enabled, lss_min_log_level, lss_min_log_time, universe>>

\* a rebuild is requested from outside (lss_force_rebuild)
ForceRebuild ==
    /\ ~crashed
    /\ ~lss_force_rebuild
    /\ lss_force_rebuild' = TRUE
    /\ Forget
    /\ UNCHANGED <<searchVars, histVars, viewVars, unitVars>>
    /\ UNCHANGED <<lf, pend, cut, gone, written, ld_lines_indexed, lss_index,
                   lss_filtered_index, paused, crashed, tfs, filter_enabled,
                   lss_min_log_level, lss_min_log_time, universe>>

\* logfiles that are polled under a paused view as well
Observations_unpaused(reorder) ==
    [s \in Slots |->
        IF s \in gone
        THEN [res |-> RR_NO_NEW_LINES, lines |-> lf[s], fs |-> tfs[s]]
        ELSE LogfileRebuild(s, s \in reorder)]

\* what each logfile reports when rebuild_index polls it
Observations(reorder) ==
    [s \in Slots |->
        IF paused \/ s \in gone
        THEN [res |-> RR_NO_NEW_LINES, lines |-> lf[s], fs |-> tfs[s]]
        ELSE LogfileRebuild(s, s \in reorder)]

ReorderSlots ==
    {s \in Slots \ gone : ~paused /\ cut[s] < 0 /\ pend[s] # <<>>
                   /\ ~IsSortedByTime(lf[s] \o pend[s])}

RebuildIndex ==
    /\ ~crashed
    /\ \E grew \in BOOLEAN, reorder \in SUBSET ReorderSlots :
         \E obs \in {Observations(reorder)} :
          \E wl \in SUBSET PollWild(obs) :
           \E o \in rebuild_index(obs, grew, wl) :
              /\ lf' = o.lf
              /\ tfs' = o.tfs
              /\ ld_lines_indexed' = o.li
              /\ lss_index' = o.idx
              /\ lss_filtered_index' = o.filt
              /\ delegate_calls' = o.calls
              /\ retval' = o.retval
              /\ view_call' = o.view_call
              /\ crashed' = o.crashed
              /\ pre' = [idx |-> lss_index, filt |-> lss_filtered_index,
                         li |-> ld_lines_indexed,
                         res |-> [s \in Slots |->
                                    IF paused \/ s \in gone THEN "none"
                                    ELSE PollResult(obs, s)]]
    /\ pend' = [s \in Slots |-> IF paused THEN pend[s] ELSE <<>>]
    /\ cut' = [s \in Slots |-> IF paused THEN cut[s] ELSE -1]
    /\ lss_force_rebuild' = FALSE
    /\ last_op' = "rebuild_index"
    /\ UNCHANGED <<searchVars, histVars, viewVars, unitVars>>
    /\ UNCHANGED <<gone, written, paused, filter_enabled, lss_min_log_level,
                   lss_min_log_time, universe>>

\* a text_filters_changed that keeps the rows it had
text_filters_changed_keep(enabled, extra) ==
    FilterLoop(lf, tfs, enabled, extra, lss_index, lss_filtered_index, 0)

\* logfile_sub_source::text_filters_changed, after the filters were set to
\* enabled and the extra filters to extra
text_filters_changed(enabled, extra) ==
    FilterLoop(lf, tfs, enabled, extra, lss_index, <<>>, 0)

\* a text_filters_changed that sends every file back to its first line
TextFiltersChanged_rewind ==
    /\ ~crashed
    /\ \E c \in FilterChoices(universe) :
         /\ filter_enabled' = c.enabled
         /\ lss_min_log_level' = c.min_level
         /\ lss_min_log_time' = c.min_time
         /\ \E f \in text_filters_changed(c.enabled, c) :
              /\ lss_filtered_index' = f.filt
              /\ delegate_calls' = <<<<"index_start", 0>>>> \o f.calls
                     \o (IF f.crashed THEN <<>> ELSE <<<<"index_complete", 0>>>>)
              /\ view_call' = IF f.crashed THEN "none" ELSE "redo_search"
              /\ crashed' = f.crashed
    /\ last_op' = "text_filters_changed"
    /\ retval' = "none"
    /\ pre' = NoPre
    /\ ld_lines_indexed' = [s \in Slots |-> 0]
    /\ UNCHANGED <<searchVars, histVars, viewVars, unitVars>>
    /\ UNCHANGED <<lf, pend, cut, gone, written, lss_index,
                   lss_force_rebuild, paused, tfs, universe>>

\* what text_filters_changed does to the index and its delegate
FiltersChangedIndex ==
    /\ ~crashed
    /\ \E c \in FilterChoices(universe) :
         /\ filter_enabled' = c.enabled
         /\ lss_min_log_level' = c.min_level
         /\ lss_min_log_time' = c.min_time
         /\ \E f \in text_filters_changed(c.enabled, c) :
              /\ lss_filtered_index' = f.filt
              /\ delegate_calls' = <<<<"index_start", 0>>>> \o f.calls
                     \o (IF f.crashed THEN <<>> ELSE <<<<"index_complete", 0>>>>)
              /\ view_call' = IF f.crashed THEN "none" ELSE "redo_search"
              /\ crashed' = f.crashed
    /\ last_op' = "text_filters_changed"
    /\ retval' = "none"
    /\ pre' = NoPre
    /\ UNCHANGED <<searchVars, histVars, unitVars>>
    /\ UNCHANGED <<lf, pend, cut, gone, written, ld_lines_indexed, lss_index,
                   lss_force_rebuild, paused, tfs, universe>>

\* text_filters_changed of a log source whose view's bookmarks are not
\* followed (the view's part is recorded in view_call)
TextFiltersChanged == FiltersChangedIndex /\ UNCHANGED viewVars

Next ==
    \/ FileAppend
    \/ SetPaused
    \/ RebuildIndex
    \/ TextFiltersChanged

\* files that grow, merged by time, under a view that may be paused
Spec == Init /\ [][Next]_vars

\* files that grow and are truncated, and rebuilds that are forced
NextTrunc ==
    \/ FileAppend
    \/ FileTruncate
    \/ ForceRebuild
    \/ RebuildIndex
    \/ TextFiltersChanged

SpecTrunc == Init /\ [][NextTrunc]_vars

\* files that grow and are closed
NextGone ==
    \/ FileAppend
    \/ FileGone
    \/ RebuildIndex
    \/ TextFiltersChanged

SpecGone == Init /\ [][NextGone]_vars

\* files that grow and are merged by time, pass after pass
NextMerge ==
    \/ FileAppend
    \/ SetPaused
    \/ RebuildIndex

SpecMerge == Init /\ [][NextMerge]_vars

\* a call of rebuild_index that is seen: it leaves a state other than the
\* one it found
TickStep == last_op' = "rebuild_index"

\* a call of rebuild_index in which reserve returns false has nothing left
\* to change: it would leave the state it finds
TickIdle ==
    \/ crashed
    \/ /\ last_op = "rebuild_index"
       /\ ~lss_force_rebuild
       /\ \A s \in Slots : ~paused => (pend[s] = <<>> /\ cut[s] = -1)
       /\ \A reorder \in SUBSET ReorderSlots :
            LET obs == Observations(reorder)
            IN  /\ pre = [idx |-> lss_index, filt |-> lss_filtered_index,
                          li |-> ld_lines_indexed,
                          res |-> [s \in Slots |->
                                     IF paused \/ s \in gone THEN "none"
                                     ELSE PollResult(obs, s)]]
                /\ \A wl \in SUBSET PollWild(obs) :
                     \A o \in rebuild_index(obs, FALSE, wl) :
                        o = [lf |-> lf, tfs |-> tfs, li |-> ld_lines_indexed,
                             idx |-> lss_index, filt |-> lss_filtered_index,
                             calls |-> delegate_calls, retval |-> retval,
                             view_call |-> view_call, crashed |-> crashed]

\* the same, with rebuild_index called on every tick of the main loop.
\* reserve returns true only when the files have grown, so the calls the
\* loop keeps making are those of RebuildIndex with grew = FALSE, and they
\* are weakly fair: such a call has nothing left to change (TickIdle)
\* again and again, or calls that are seen are made again and again
SpecTick ==
    Init /\ [][NextMerge]_vars /\ (([]<>TickIdle) \/ ([]<><<TickStep>>_vars))

\* files whose lines are written in order of time
OrderedAppend ==
    /\ FileAppend
    /\ \A s \in Slots :
          \A i, j \in 1..Len(lf[s] \o pend'[s]) :
              i < j => (lf[s] \o pend'[s])[i].t <= (lf[s] \o pend'[s])[j].t

\* the first line of slot s that is not indexed, as a poll of the file
\* finds it, is older than the line at the tail of the index
ObservedLate(s) ==
    LET all == lf[s] \o pend[s]
    IN  /\ ~paused
        /\ s \notin gone
        /\ lss_index # <<>>
        /\ ld_lines_indexed[s] < Len(all)
        /\ all[ld_lines_indexed[s] + 1].t
               < ClLogline(lf, lss_index[Len(lss_index)]).t

\* the calls of rebuild_index that observe no such line
OrderedRebuildIndex ==
    /\ \A s \in Slots : ~ObservedLate(s)
    /\ RebuildIndex

NextOrdered ==
    \/ OrderedAppend
    \/ SetPaused
    \/ OrderedRebuildIndex

\* files in order of time, and no line observed that is older than the
\* tail of the index
SpecOrdered == Init /\ [][NextOrdered]_vars

\* files that grow and are closed under a view that is paused and resumed,
\* and rebuilds that are forced
InitPause == InitIn("view")

NextPause ==
    \/ FileAppend
    \/ FileGone
    \/ SetPaused
    \/ ForceRebuild
    \/ RebuildIndex

SpecPause == InitPause /\ [][NextPause]_vars

\* files of multi-line messages under changing filters
InitFilter == InitIn("filter")

NextFilter ==
    \/ FileAppend
    \/ RebuildIndex
    \/ TextFiltersChanged

SpecFilter == InitFilter /\ [][NextFilter]_vars

\* one file of multi-line messages under changing filters
InitMsg == InitIn("message")

SpecMsg == InitMsg /\ [][NextFilter]_vars

(***************************************************************************)
(* The view's search: textview_curses::execute_search and the callbacks    *)
(* of its grep worker.                                                     *)
(***************************************************************************)
REVERSE_SEARCH_OFFSET == 2000

\* the longest pattern the regex library compiles
MaxPattern == 3
\* how far above 0 and above REVERSE_SEARCH_OFFSET the sampled rows go
MaxTopStep == 1

Parens(n) == [i \in 1..n |-> "("]

\* the texts searched for: empty, a word, an unbalanced parenthesis, and
\* parentheses whose quoted form is longer than the library compiles
RegexInputs == {<<>>, <<"a">>, <<"(">>, Parens(MaxPattern - 1)}

TopSamples ==
    (0..MaxTopStep)
      \cup {REVERSE_SEARCH_OFFSET + k : k \in (-1)..MaxTopStep}

LineCounts == {0, 1, REVERSE_SEARCH_OFFSET + MaxTopStep + 1}

\* the last row of the view whose ranges are searched again
MaxRange == 2

RangeRows == 0..MaxRange

\* the rows on which the searched text can be found
MatchRows ==
    IF universe = "range" THEN RangeRows
    ELSE {0, REVERSE_SEARCH_OFFSET + MaxTopStep}

IsAlnum(c) == c = "a"

\* pcrecpp::RE::QuoteMeta: a backslash before every character that is not
\* alphanumeric
RECURSIVE QuoteMeta(_)
QuoteMeta(r) ==
    IF r = <<>> THEN <<>>
    ELSE (IF IsAlnum(Head(r)) THEN <<Head(r)>> ELSE <<"\\", Head(r)>>)
           \o QuoteMeta(Tail(r))

\* the pattern is well formed: an escaped character is a literal, a bare
\* opening parenthesis is never closed
RECURSIVE Parses(_)
Parses(r) ==
    IF r = <<>> THEN TRUE
    ELSE IF Head(r) = "\\" THEN Len(r) >= 2 /\ Parses(Tail(Tail(r)))
    ELSE IF Head(r) = "(" THEN FALSE
    ELSE Parses(Tail(r))

\* pcre_compile: <<>> is nullptr, <<r>> the code compiled from r
pcre_compile(r) == IF Len(r) <= MaxPattern /\ Parses(r) THEN <<r>> ELSE <<>>

\* grep_proc::queue_request(start, stop); stop = -1 is "to the end"
Request(start, stop) == [start |-> start, stop |-> stop]

\* the rows a request searches
InRequest(req, row) ==
    row >= req.start /\ (req.stop = -1 \/ row < req.stop)

\* a search that starts at the top of the view
search_requests_from_top(top) ==
    <<Request(top, -1)>>
      \o (IF top > 0 THEN <<Request(0, top)>> ELSE <<>>)

\* the requests execute_search queues for a view whose top is top
search_requests(top) ==
    LET start == IF top < REVERSE_SEARCH_OFFSET THEN 0
                 ELSE top - REVERSE_SEARCH_OFFSET
    IN  <<Request(start, -1)>>
          \o (IF start > 0 THEN <<Request(0, start)>> ELSE <<>>)

\* an execute_search that keeps the marks of the search before
execute_search_keep(regex_orig) ==
    LET first  == IF regex_orig = <<>> THEN <<>> ELSE pcre_compile(regex_orig)
        failed == regex_orig # <<>> /\ first = <<>>
        regex  == IF failed THEN QuoteMeta(regex_orig) ELSE regex_orig
        code   == IF failed THEN pcre_compile(regex) ELSE first
    IN  [last |-> regex, child |-> code, source_child |-> code,
         highlights |-> IF code # <<>> THEN {code[1]} ELSE {},
         queue |-> IF code # <<>> THEN search_requests(tc_top) ELSE <<>>,
         running |-> <<>>,
         searching |-> IF gp_running # <<>> THEN tc_searching - 1
                       ELSE tc_searching,
         marks |-> bm_search,
         log |-> IF ~failed THEN "none"
                 ELSE IF code = <<>> THEN "error" ELSE "info",
         fresh |-> TRUE]

\* textview_curses::execute_search(regex_orig): the fields it leaves
execute_search(regex_orig) ==
    IF tc_search_child = <<>> \/ regex_orig # tc_last_search
    THEN
      LET first  == IF regex_orig = <<>> THEN <<>>
                    ELSE pcre_compile(regex_orig)
          failed == regex_orig # <<>> /\ first = <<>>
          regex  == IF failed THEN QuoteMeta(regex_orig) ELSE regex_orig
          code   == IF failed THEN pcre_compile(regex) ELSE first
      IN  [last |-> regex, child |-> code, source_child |-> code,
           \* the old grep_highlighter takes its highlight with it
           highlights |-> IF code # <<>> THEN {code[1]} ELSE {},
           queue |-> IF code # <<>> THEN search_requests(tc_top) ELSE <<>>,
           running |-> <<>>,
           \* the old grep_proc ends the request it was searching
           searching |-> IF gp_running # <<>> THEN tc_searching - 1
                         ELSE tc_searching,
           \* match_reset()
           marks |-> {},
           log |-> IF ~failed THEN "none"
                   ELSE IF code = <<>> THEN "error" ELSE "info",
           fresh |-> TRUE]
    ELSE [last |-> regex_orig, child |-> tc_search_child,
          source_child |-> tc_source_search_child,
          highlights |-> tc_highlights, queue |-> gp_queue,
          running |-> gp_running, searching |-> tc_searching,
          marks |-> bm_search, log |-> "none", fresh |-> FALSE]

ExecuteSearch ==
    /\ ~crashed
    /\ \E regex_orig \in RegexInputs :
         \E o \in {execute_search(regex_orig)} :
            /\ tc_last_search' = o.last
            /\ tc_search_child' = o.child
            /\ tc_source_search_child' = o.source_child
            /\ tc_highlights' = o.highlights
            /\ gp_queue' = o.queue
            /\ gp_running' = o.running
            /\ tc_searching' = o.searching
            /\ bm_search' = o.marks
            /\ search_log' = o.log
            /\ search_op' = [name |-> "execute_search", regex |-> regex_orig,
                             fresh |-> o.fresh]
    /\ UNCHANGED <<tc_top, tc_line_count, logVars, histVars, viewVars, unitVars>>

\* the user scrolls: listview_curses::set_top
SetTop ==
    /\ ~crashed
    /\ \E t \in TopSamples :
         /\ t # tc_top
         /\ (t = 0 \/ t < tc_line_count)
         /\ tc_top' = t
    /\ search_op' = [name |-> "set_top", regex |-> <<>>, fresh |-> FALSE]
    /\ UNCHANGED <<tc_line_count, tc_last_search, tc_search_child,
                   tc_source_search_child, tc_highlights, gp_queue,
                   gp_running, tc_searching, bm_search, search_log,
                   logVars, histVars, viewVars, unitVars>>

\* bookmark_vector::equal_range(start, stop): the marks of the request
equal_range(marks, start, stop) ==
    {m \in marks : InRequest(Request(start, stop), m)}

\* the marks as bookmark_vector holds them: in ascending order
RECURSIVE SortedMarks(_)
SortedMarks(marks) ==
    IF marks = {} THEN <<>>
    ELSE LET m == CHOOSE x \in marks : \A y \in marks : x <= y
         IN  <<m>> \o SortedMarks(marks \ {m})

\* set_user_mark(&BM_SEARCH, vl, false) on the vector vec that lies in the
\* memory mem: the mark is looked up and erased, the marks behind it move
\* down by one and the place of the last one keeps its old value
set_user_mark_off(vec, mem, vl) ==
    LET at == {k \in 1..Len(vec) : vec[k] = vl}
    IN  IF at = {} THEN [vec |-> vec, mem |-> mem]
        ELSE LET k == CHOOSE x \in at : TRUE
                 left == [j \in 1..(Len(vec) - 1) |->
                            IF j < k THEN vec[j] ELSE vec[j + 1]]
             IN  [vec |-> left,
                  mem |-> [j \in 1..Len(mem) |->
                             IF j <= Len(left) THEN left[j] ELSE mem[j]]]

\* the loop of grep_begin from mark_iter to pair.second (places in the
\* memory of the vector, counted from one) in a build whose iterators are
\* plain pointers: every set_user_mark erases from the vector the loop
\* walks, so the loop reads the places of the vector as they are by then
RECURSIVE grep_begin_loop(_, _, _, _)
grep_begin_loop(vec, mem, mark_iter, second) ==
    IF mark_iter >= second THEN vec
    ELSE LET o == set_user_mark_off(vec, mem, mem[mark_iter])
         IN  grep_begin_loop(o.vec, o.mem, mark_iter + 1, second)

\* textview_curses::grep_begin: the SEARCH marks it can leave.  Erasing a
\* mark invalidates mark_iter and pair.second, and using them afterwards is
\* undefined: a build with plain pointers goes on as grep_begin_loop does,
\* a build with checked iterators stops the process
grep_begin(marks, start, stop) ==
    LET vec == SortedMarks(marks)
        range == equal_range(marks, start, stop)
        first == Cardinality({m \in marks : m < start}) + 1
        second == first + Cardinality(range)
    IN  IF start = -1 \/ range = {}
        THEN {[marks |-> marks, crashed |-> FALSE]}
        ELSE {[marks |-> LET left == grep_begin_loop(vec, vec, first, second)
                         IN  {left[j] : j \in 1..Len(left)},
               crashed |-> FALSE],
              [marks |-> marks, crashed |-> TRUE]}

\* the worker takes up its next request and the view is told
GrepBegin ==
    /\ ~crashed
    /\ tc_search_child # <<>>
    /\ gp_running = <<>>
    /\ gp_queue # <<>>
    /\ gp_running' = <<Head(gp_queue)>>
    /\ gp_queue' = Tail(gp_queue)
    /\ tc_searching' = tc_searching + 1
    /\ \E o \in grep_begin(bm_search, Head(gp_queue).start,
                             Head(gp_queue).stop) :
         /\ bm_search' = o.marks
         /\ crashed' = o.crashed
    /\ search_op' = [name |-> "grep_begin", regex |-> <<>>, fresh |-> FALSE]
    /\ UNCHANGED <<tc_top, tc_line_count, tc_last_search, tc_search_child,
                   tc_source_search_child, tc_highlights, search_log,
                   lf, pend, cut, gone, written, ld_lines_indexed, lss_index,
                   lss_filtered_index, lss_force_rebuild, paused, retval,
                   view_call, delegate_calls, last_op, pre, tfs,
                   filter_enabled, lss_min_log_level, lss_min_log_time,
                   universe, histVars, viewVars, unitVars>>

\* a grep_match that counts rows from one
grep_match_from_one(marks, line) == marks \cup {line + 1}

\* textview_curses::grep_match: insert_once(line)
grep_match(marks, line) == marks \cup {line}

\* the worker found the text on a row of its request
GrepMatch ==
    /\ ~crashed
    /\ tc_search_child # <<>>
    /\ gp_running # <<>>
    /\ \E line \in MatchRows :
         /\ line < tc_line_count
         /\ InRequest(gp_running[1], line)
         /\ bm_search' = grep_match(bm_search, line)
    /\ search_op' = [name |-> "grep_match", regex |-> <<>>, fresh |-> FALSE]
    /\ UNCHANGED <<tc_top, tc_line_count, tc_last_search, tc_search_child,
                   tc_source_search_child, tc_highlights, gp_queue,
                   gp_running, tc_searching, search_log, logVars, histVars, viewVars, unitVars>>

\* textview_curses::grep_end: the worker finished its request
GrepEnd ==
    /\ ~crashed
    /\ tc_search_child # <<>>
    /\ gp_running # <<>>
    /\ gp_running' = <<>>
    /\ tc_searching' = tc_searching - 1
    /\ search_op' = [name |-> "grep_end", regex |-> <<>>, fresh |-> FALSE]
    /\ UNCHANGED <<tc_top, tc_line_count, tc_last_search, tc_search_child,
                   tc_source_search_child, tc_highlights, gp_queue,
                   bm_search, search_log, logVars, histVars, viewVars, unitVars>>

\* a grep_end_batch that takes the end of a batch for the end of the
\* request
GrepEndBatch_ends ==
    /\ ~crashed
    /\ tc_search_child # <<>>
    /\ gp_running # <<>>
    /\ tc_searching' = tc_searching - 1
    /\ search_op' = [name |-> "grep_end_batch", regex |-> <<>>, fresh |-> FALSE]
    /\ UNCHANGED <<tc_top, tc_line_count, tc_last_search, tc_search_child,
                   tc_source_search_child, tc_highlights, gp_queue,
                   gp_running, bm_search, search_log, logVars, histVars,
                   viewVars, unitVars>>

\* textview_curses::grep_end_batch: the worker has delivered the matches of
\* a batch of rows of its request (the follow deadline it looks after is
\* not part of the model)
GrepEndBatch ==
    /\ ~crashed
    /\ tc_search_child # <<>>
    /\ gp_running # <<>>
    /\ search_op' = [name |-> "grep_end_batch", regex |-> <<>>, fresh |-> FALSE]
    /\ UNCHANGED <<tc_top, tc_line_count, tc_last_search, tc_search_child,
                   tc_source_search_child, tc_highlights, gp_queue,
                   gp_running, tc_searching, bm_search, search_log, logVars,
                   histVars, viewVars, unitVars>>

InitSearch ==
    /\ LogInit("search")
    /\ \E n \in LineCounts : SearchInit(n)
    /\ HistInit
    /\ ViewInit
    /\ AddrInit
    /\ FilterOpInit

NextSearch ==
    \/ ExecuteSearch
    \/ SetTop
    \/ GrepBegin
    \/ GrepMatch
    \/ GrepEnd

SpecSearch == InitSearch /\ [][NextSearch]_vars

\* the same with every callback of the worker, the ends of batches included
NextGrep ==
    \/ ExecuteSearch
    \/ SetTop
    \/ GrepBegin
    \/ GrepMatch
    \/ GrepEndBatch
    \/ GrepEnd

SpecGrep == InitSearch /\ [][NextGrep]_vars

\* the ranges the view has searched again: from a row, or from where the
\* worker stopped (-1), to a row or to the end (-1)
RangeRequests ==
    {Request(start, stop) : start \in {-1} \cup RangeRows,
                            stop \in {-1} \cup (1..(MaxRange + 1))}
      \ {r \in [start : Int, stop : Int] : r.stop # -1 /\ r.stop <= r.start}

\* textview_curses::search_range and search_new_data: the worker of the
\* search is asked for one more range
SearchRange ==
    /\ ~crashed
    /\ tc_search_child # <<>>
    /\ gp_queue = <<>>
    /\ \E r \in RangeRequests : gp_queue' = <<r>>
    /\ search_op' = [name |-> "search_range", regex |-> <<>>, fresh |-> FALSE]
    /\ UNCHANGED <<tc_top, tc_line_count, tc_last_search, tc_search_child,
                   tc_source_search_child, tc_highlights, gp_running,
                   tc_searching, bm_search, search_log, logVars, histVars,
                   viewVars, unitVars>>

InitRange ==
    /\ LogInit("range")
    /\ SearchInit(MaxRange + 1)
    /\ HistInit
    /\ ViewInit
    /\ AddrInit
    /\ FilterOpInit

NextRange ==
    \/ ExecuteSearch
    \/ SearchRange
    \/ GrepBegin
    \/ GrepMatch
    \/ GrepEnd

SpecRange == InitRange /\ [][NextRange]_vars

(***************************************************************************)
(* The location history of the log view: log_location_history.             *)
(***************************************************************************)
\* the entries the ring of the history holds
MaxHist == 3

\* the file the history is taken over: every second line matches the
\* EXCLUDE filter
HistLines ==
    [k \in 1..MaxLines |-> Line(1, FALSE, IF k % 2 = 0 THEN {1} ELSE {}, 1)]

\* logfile_sub_source::text_line_count
text_line_count == Len(lss_filtered_index)

\* logfile_sub_source::at(row)
at(row) == lss_index[lss_filtered_index[row + 1] + 1]

\* logfile_sub_source::find_from_content: <<>> is nullopt
find_from_content(cl) ==
    LET rows == {r \in 0..(text_line_count - 1) : at(r) = cl}
    IN  IF rows = {} THEN <<>> ELSE <<CHOOSE r \in rows : TRUE>>

\* llh_history.erase_from(begin() + from): the entries before from stay
erase_from(hist, from) == SubSeq(hist, 1, from)

\* llh_history.push_back(cl): a full ring gives up its oldest entry
push_back(hist, cl) ==
    IF Len(hist) >= MaxHist THEN Append(Tail(hist), cl) ELSE Append(hist, cl)

\* an append that keeps the entries newer than the cursor
loc_history_append_all(hist, pos, top) ==
    IF top >= text_line_count THEN [hist |-> hist, pos |-> pos]
    ELSE [hist |-> push_back(hist, at(top)), pos |-> 0]

\* an append that leaves the cursor where it was
loc_history_append_stay(hist, pos, top) ==
    IF top >= text_line_count THEN [hist |-> hist, pos |-> pos]
    ELSE [hist |-> push_back(erase_from(hist, Len(hist) - pos), at(top)),
          pos  |-> pos]

\* log_location_history::loc_history_append(top)
loc_history_append(hist, pos, top) ==
    IF top >= text_line_count THEN [hist |-> hist, pos |-> pos]
    ELSE [hist |-> push_back(erase_from(hist, Len(hist) - pos), at(top)),
          pos  |-> 0]

\* *(llh_history.rbegin() + n)
FromNewest(hist, n) == hist[Len(hist) - n]

\* log_location_history::loc_history_back(current_top)
RECURSIVE loc_history_back(_, _, _)
loc_history_back(hist, pos, current_top) ==
    IF pos < Len(hist)
    THEN LET newest == find_from_content(FromNewest(hist, 0)) IN
         IF pos = 0 /\ newest # <<current_top>>
         THEN [pos |-> pos, ret |-> newest]
         ELSE IF pos + 1 >= Len(hist)
         THEN [pos |-> pos, ret |-> <<>>]
         ELSE LET vis_for_pos == find_from_content(FromNewest(hist, pos + 1))
              IN  IF vis_for_pos # <<>>
                  THEN [pos |-> pos + 1, ret |-> vis_for_pos]
                  ELSE loc_history_back(hist, pos + 1, current_top)
    ELSE [pos |-> pos, ret |-> <<>>]

\* a forward that stops at the next entry, resolved or not
loc_history_forward_one(hist, pos, current_top) ==
    IF pos > 0
    THEN [pos |-> pos - 1, ret |-> find_from_content(FromNewest(hist, pos - 1))]
    ELSE [pos |-> pos, ret |-> <<>>]

\* log_location_history::loc_history_forward(current_top)
RECURSIVE loc_history_forward(_, _, _)
loc_history_forward(hist, pos, current_top) ==
    IF pos > 0
    THEN LET vis_for_pos == find_from_content(FromNewest(hist, pos - 1))
         IN  IF vis_for_pos # <<>>
             THEN [pos |-> pos - 1, ret |-> vis_for_pos]
             ELSE loc_history_forward(hist, pos - 1, current_top)
    ELSE [pos |-> pos, ret |-> <<>>]

\* the rows a caller can name: those of the view and one past them
HistTops == 0..text_line_count

LocHistoryAppend ==
    /\ ~crashed
    /\ \E top \in HistTops :
         \E o \in {loc_history_append(llh_history, lh_history_position, top)} :
            /\ llh_history' = o.hist
            /\ lh_history_position' = o.pos
            /\ lh_op' = [name |-> "append", top |-> top,
                         pos |-> lh_history_position,
                         rows |-> lss_filtered_index]
    /\ lh_ret' = <<>>
    /\ UNCHANGED <<logVars, searchVars, viewVars, unitVars>>

LocHistoryBack ==
    /\ ~crashed
    /\ \E current_top \in HistTops :
         \E o \in {loc_history_back(llh_history, lh_history_position,
                                    current_top)} :
            /\ lh_history_position' = o.pos
            /\ lh_ret' = o.ret
            /\ lh_op' = [name |-> "back", top |-> current_top,
                         pos |-> lh_history_position,
                         rows |-> lss_filtered_index]
    /\ UNCHANGED <<llh_history, logVars, searchVars, viewVars, unitVars>>

LocHistoryForward ==
    /\ ~crashed
    /\ \E current_top \in HistTops :
         \E o \in {loc_history_forward(llh_history, lh_history_position,
                                       current_top)} :
            /\ lh_history_position' = o.pos
            /\ lh_ret' = o.ret
            /\ lh_op' = [name |-> "forward", top |-> current_top,
                         pos |-> lh_history_position,
                         rows |-> lss_filtered_index]
    /\ UNCHANGED <<llh_history, logVars, searchVars, viewVars, unitVars>>

\* one file of MaxLines lines, written and indexed by one rebuild_index
InitHist ==
    /\ lf = [s \in Slots |-> IF s = 0 THEN HistLines ELSE <<>>]
    /\ pend = [s \in Slots |-> <<>>]
    /\ cut = [s \in Slots |-> -1]
    /\ gone = {}
    /\ written = MaxLines
    /\ ld_lines_indexed = [s \in Slots |-> IF s = 0 THEN MaxLines ELSE 0]
    /\ lss_index = [k \in 1..MaxLines |-> ContentLine(0, k - 1)]
    /\ lss_filtered_index = [k \in 1..MaxLines |-> k - 1]
    /\ lss_force_rebuild = FALSE
    /\ paused = FALSE
    /\ crashed = FALSE
    /\ retval = "none"
    /\ view_call = "none"
    /\ delegate_calls = <<>>
    /\ last_op = "init"
    /\ pre = NoPre
    /\ tfs = [s \in Slots |->
                IF s = 0
                THEN logline_eof(
                       logline_new_lines(logline_restart(NewFilterState, 0),
                                         HistLines, 0),
                       MaxLines)
                ELSE NewFilterState]
    /\ filter_enabled = {}
    /\ lss_min_log_level = 0
    /\ lss_min_log_time = 0
    /\ universe = "history"
    /\ SearchInit(0)
    /\ HistInit
    /\ ViewInit
    /\ AddrInit
    /\ FilterOpInit

NextHist ==
    \/ TextFiltersChanged
    \/ LocHistoryAppend
    \/ LocHistoryBack
    \/ LocHistoryForward

SpecHist == InitHist /\ [][NextHist]_vars

(***************************************************************************)
(* The log view's bookmarks and the rendering of a row:                    *)
(* textview_curses::reload_data, logfile_sub_source::text_update_marks,    *)
(* text_value_for_line and text_attrs_for_line.                            *)
(***************************************************************************)
\* a text_update_marks that clears no bookmark before it inserts
update_marks_keep(bm, lines, idx, filt) ==
    LET rows == 0..(Len(filt) - 1)
        cl(vl) == idx[filt[vl + 1] + 1]
        ll(vl) == ClLogline(lines, cl(vl))
    IN  [BM_FILES    |-> bm.BM_FILES \cup {vl \in rows :
                            vl = 0 \/ ClSlot(cl(vl)) # ClSlot(cl(vl - 1))},
         BM_WARNINGS |-> bm.BM_WARNINGS \cup {vl \in rows :
                            ~ll(vl).cont /\ ll(vl).lvl = LEVEL_WARNING},
         BM_ERRORS   |-> bm.BM_ERRORS \cup {vl \in rows :
                            ~ll(vl).cont /\ ll(vl).lvl \in
                               {LEVEL_FATAL, LEVEL_ERROR, LEVEL_CRITICAL}}]

\* logfile_sub_source::text_update_marks(bm) over the files lines, the index
\* idx and the filtered index filt: the three sets are cleared, then
\* BM_FILES gets every row whose file is not the file of the row before,
\* BM_WARNINGS and BM_ERRORS the rows of those levels that begin a message
update_marks(bm, lines, idx, filt) ==
    LET rows == 0..(Len(filt) - 1)
        cl(vl) == idx[filt[vl + 1] + 1]
        ll(vl) == ClLogline(lines, cl(vl))
    IN  [BM_FILES    |-> {vl \in rows :
                            vl = 0 \/ ClSlot(cl(vl)) # ClSlot(cl(vl - 1))},
         BM_WARNINGS |-> {vl \in rows :
                            ~ll(vl).cont /\ ll(vl).lvl = LEVEL_WARNING},
         BM_ERRORS   |-> {vl \in rows :
                            ~ll(vl).cont /\ ll(vl).lvl \in
                               {LEVEL_FATAL, LEVEL_ERROR, LEVEL_CRITICAL}}]

\* text_update_marks on the view's bookmarks, as the source stands
text_update_marks ==
    update_marks(tc_bookmarks, lf, lss_index, lss_filtered_index)

\* textview_curses::reload_data
ReloadData ==
    /\ ~crashed
    /\ ~lss_token.aborted
    /\ tc_bookmarks' = text_update_marks
    /\ UNCHANGED <<lss_token, logVars, searchVars, histVars,
                   unitVars>>

\* the rows a caller can ask for: those of the view, one below and one past
RenderRows == (-1)..text_line_count

\* text_value_for_line with any row taken as a row of the view
text_value_for_line_any(row, flags) ==
    IF flags = "RF_RAW" THEN [lss_token EXCEPT !.row = row]
    ELSE IF row < 0 \/ row >= text_line_count
    THEN [lss_token EXCEPT !.row = row, !.flags = flags, !.file = -1,
                           !.attrs = <<>>]
    ELSE [row |-> row, file |-> ClSlot(at(row)), line |-> ClLine(at(row)),
          value |-> <<ClLogline(lf, at(row))>>, flags |-> flags,
          attrs |-> <<>>, aborted |-> FALSE]

\* logfile_sub_source::text_value_for_line(tc, row, value_out, flags): the
\* renderer state it leaves
text_value_for_line(row, flags) ==
    IF row < 0 \/ row >= text_line_count
    THEN [lss_token EXCEPT !.row = row, !.aborted = TRUE]
    ELSE IF flags = "RF_RAW" THEN [lss_token EXCEPT !.row = row]
    ELSE [row |-> row, file |-> ClSlot(at(row)), line |-> ClLine(at(row)),
          value |-> <<ClLogline(lf, at(row))>>, flags |-> flags,
          attrs |-> <<>>, aborted |-> FALSE]

TextValueForLine ==
    /\ ~crashed
    /\ ~lss_token.aborted
    /\ \E row \in RenderRows, flags \in {"RF_RAW", "0"} :
         lss_token' = text_value_for_line(row, flags)
    /\ UNCHANGED <<tc_bookmarks, logVars, searchVars, histVars,
                   unitVars>>

\* the VC_GRAPHIC attribute of text_attrs_for_line: the file-boundary glyph
file_graph(bv, row) ==
    LET is_first_for_file == row \in bv
        is_last_for_file  == (row + 1) \in bv
    IN  IF is_first_for_file
        THEN (IF is_last_for_file THEN "ACS_HLINE" ELSE "ACS_ULCORNER")
        ELSE IF is_last_for_file THEN "ACS_LLCORNER"
        ELSE "ACS_VLINE"

\* logfile_sub_source::text_attrs_for_line(lv, row, value_out), called for
\* the row text_value_for_line was called for: the graphic it pushes
TextAttrsForLine ==
    /\ ~crashed
    /\ ~lss_token.aborted
    /\ lss_token.file >= 0
    /\ lss_token.attrs = <<>>
    /\ \E row \in 0..(text_line_count - 1) :
         /\ at(row) = ContentLine(lss_token.file, lss_token.line)
         /\ lss_token' = [lss_token EXCEPT !.attrs =
              <<[row |-> row,
                 graph |-> file_graph(tc_bookmarks.BM_FILES, row)]>>]
    /\ UNCHANGED <<tc_bookmarks, logVars, searchVars, histVars,
                   unitVars>>

InitView == InitIn("view")

\* rebuild_index as long as no precondition failed
ViewRebuildIndex == ~lss_token.aborted /\ RebuildIndex

NextView ==
    \/ FileAppend
    \/ ViewRebuildIndex
    \/ ReloadData
    \/ TextValueForLine
    \/ TextAttrsForLine

SpecView == InitView /\ [][NextView]_vars

(***************************************************************************)
(* The bookmarks of a log view over files of lines of every bookmarked     *)
(* level, with the minimum level changed by the user.                      *)
(***************************************************************************)
MaxMarked == 2     \* lines the files hold together when they are attached

\* the lines of q that a sends to slot s, in the order of q
RECURSIVE Pick(_, _, _, _)
Pick(q, a, s, i) ==
    IF i > Len(q) THEN <<>>
    ELSE (IF a[i] = s THEN <<q[i]>> ELSE <<>>) \o Pick(q, a, s, i + 1)

\* the files attached: up to MaxMarked lines spread over the slots, none
\* beginning with a continuation
MarkedFiles ==
    UNION { { f \in { [s \in Slots |-> Pick(q, a, s, 1)]
                       : q \in [1..k -> LineSet("marks")],
                         a \in [1..k -> Slots] }
              : \A s \in Slots : f[s] # <<>> => ~f[s][1].cont }
            : k \in 0..MaxMarked }

\* text_filters_changed with the view attached: reload_data recomputes the
\* bookmarks over the new filtered index before the search is redone
TextFiltersChangedReload ==
    /\ ~lss_token.aborted
    /\ FiltersChangedIndex
    /\ tc_bookmarks' =
         IF crashed' THEN tc_bookmarks
         ELSE update_marks(tc_bookmarks, lf', lss_index', lss_filtered_index')
    /\ UNCHANGED lss_token

InitMarks ==
    /\ pend \in MarkedFiles
    /\ lf = [s \in Slots |-> <<>>]
    /\ cut = [s \in Slots |-> -1]
    /\ gone = {}
    /\ written = MaxLines
    /\ ld_lines_indexed = [s \in Slots |-> 0]
    /\ lss_index = <<>>
    /\ lss_filtered_index = <<>>
    /\ lss_force_rebuild = FALSE
    /\ paused = FALSE
    /\ crashed = FALSE
    /\ retval = "none"
    /\ view_call = "none"
    /\ delegate_calls = <<>>
    /\ last_op = "init"
    /\ pre = NoPre
    /\ tfs = [s \in Slots |-> NewFilterState]
    /\ filter_enabled = {}
    /\ lss_min_log_level = 0
    /\ lss_min_log_time = 0
    /\ universe = "marks"
    /\ SearchInit(0)
    /\ HistInit
    /\ ViewInit
    /\ AddrInit
    /\ FilterOpInit

NextMarks ==
    \/ ViewRebuildIndex
    \/ TextFiltersChangedReload
    \/ ReloadData

SpecMarks == InitMarks /\ [][NextMarks]_vars

(***************************************************************************)
(* The grep worker of a search beside rebuild_index and                    *)
(* text_filters_changed.                                                   *)
(***************************************************************************)
\* a view of one row whose files grow while it is searched
InitWorker ==
    /\ LogInit("view")
    /\ SearchInit(1)
    /\ HistInit
    /\ ViewInit
    /\ AddrInit
    /\ FilterOpInit

NextWorker ==
    \/ FileAppend
    \/ RebuildIndex
    \/ TextFiltersChanged
    \/ ExecuteSearch
    \/ GrepBegin
    \/ GrepMatch
    \/ GrepEnd

SpecWorker == InitWorker /\ [][NextWorker]_vars

(***************************************************************************)
(* The functions of a text_filter, called one at a time on the filter      *)
(* state of a file.                                                        *)
(***************************************************************************)
\* the rollback sizes logline_restart passes
RollbackSizes == {0, 1}

\* the files of MaxLines lines
FilesOf(u) ==
    {f \in [1 .. MaxLines -> LineSet(u)] : ~f[1].cont}

\* the line filter p is offered next: the one behind those it has counted
\* and those of its open message
NextOffset(lfs, p) ==
    lfs.tfs_filter_count[p] + lfs.tfs_lines_for_message[p]

\* the call made; of an end_of_message, the filter state it found
Called(name, p, k, offset) ==
    [name |-> name, p |-> p, k |-> k, offset |-> offset,
     before |-> IF name = "end_of_message" THEN <<tfs[0]>> ELSE <<>>]

FilterCallFrame ==
    UNCHANGED <<lf, pend, cut, gone, written, ld_lines_indexed, lss_index,
                lss_filtered_index, lss_force_rebuild, paused, crashed,
                retval, view_call, delegate_calls, last_op, pre,
                filter_enabled, lss_min_log_level, lss_min_log_time,
                universe, searchVars, histVars, viewVars, con_line>>

\* the calls are made on the filter tf_op.p
AddLine ==
    /\ ~tfs[0].failed
    /\ LET p == tf_op.p
           offset == NextOffset(tfs[0], p)
       IN /\ offset < Len(lf[0])
          /\ tfs' = [tfs EXCEPT ![0] =
                        add_line(@, p, lf[0][offset + 1], Len(lf[0]))]
          /\ tf_op' = Called("add_line", p, 0, offset)
    /\ FilterCallFrame

EndOfMessage ==
    /\ ~tfs[0].failed
    /\ LET p == tf_op.p
       IN /\ tfs' = [tfs EXCEPT ![0] = end_of_message(@, p, Len(lf[0]))]
          /\ tf_op' = Called("end_of_message", p, 0, 0)
    /\ FilterCallFrame

\* logline_restart comes first or after a logline_eof: a revert_to_last is
\* not followed by another
RevertToLast ==
    /\ ~tfs[0].failed
    /\ tf_op.name # "revert_to_last"
    /\ \E rollback_size \in RollbackSizes :
         LET p == tf_op.p
         IN /\ tfs' = [tfs EXCEPT ![0] = revert_to_last(@, p, rollback_size)]
            /\ tf_op' = Called("revert_to_last", p, rollback_size, 0)
    /\ FilterCallFrame

\* the filter state of a file all of whose lines filter q has counted
RECURSIVE CountedBy(_, _, _, _)
CountedBy(lfs, q, lines, offset) ==
    IF offset = Len(lines) THEN end_of_message(lfs, q, Len(lines))
    ELSE CountedBy(add_line(lfs, q, lines[offset + 1], Len(lines)),
                   q, lines, offset + 1)

\* a file of MaxLines lines whose filter state has a mask for every line;
\* one filter has counted the file and the other, on which the calls are
\* made, has counted none
InitFilterCalls ==
    /\ lf \in [Slots -> FilesOf("filter calls") \cup {<<>>}]
    /\ \A s \in Slots : (lf[s] # <<>>) <=> (s = 0)
    /\ pend = [s \in Slots |-> <<>>]
    /\ cut = [s \in Slots |-> -1]
    /\ gone = {}
    /\ written = MaxLines
    /\ ld_lines_indexed = [s \in Slots |-> 0]
    /\ lss_index = <<>>
    /\ lss_filtered_index = <<>>
    /\ lss_force_rebuild = FALSE
    /\ paused = FALSE
    /\ crashed = FALSE
    /\ retval = "none"
    /\ view_call = "none"
    /\ delegate_calls = <<>>
    /\ last_op = "init"
    /\ pre = NoPre
    /\ \E p \in Preds :
         /\ tf_op = [NoCall EXCEPT !.p = p]
         /\ tfs = [s \in Slots |->
                     IF s = 0
                     THEN CountedBy(resize(NewFilterState, MaxLines),
                                    CHOOSE q \in Preds : q # p, lf[0], 0)
                     ELSE NewFilterState]
    /\ filter_enabled = {}
    /\ lss_min_log_level = 0
    /\ lss_min_log_time = 0
    /\ universe = "filter calls"
    /\ SearchInit(0)
    /\ HistInit
    /\ ViewInit
    /\ AddrInit

NextFilterCalls ==
    \/ AddLine
    \/ EndOfMessage
    \/ RevertToLast

SpecFilterCalls == InitFilterCalls /\ [][NextFilterCalls]_vars

\* no counter of the filter the calls are made on has wrapped
Unwrapped ==
    /\ tfs[0].tfs_filter_count[tf_op.p] <= MaxLines
    /\ tfs[0].tfs_filter_hits[tf_op.p] <= MaxLines

\* revert_to_last called whenever its caller pleases: also right after
\* another revert_to_last (the calls are followed until a counter wraps)
RevertToLastAny ==
    /\ ~tfs[0].failed
    /\ Unwrapped
    /\ \E rollback_size \in RollbackSizes :
         LET p == tf_op.p
         IN /\ tfs' = [tfs EXCEPT ![0] = revert_to_last(@, p, rollback_size)]
            /\ tf_op' = Called("revert_to_last", p, rollback_size, 0)
    /\ FilterCallFrame

NextFilterAny ==
    \/ AddLine
    \/ EndOfMessage
    \/ RevertToLastAny

\* the three calls in any order
SpecFilterAny == InitFilterCalls /\ [][NextFilterAny]_vars

(***************************************************************************)
(* Content line addressing: the value rebuild_index stores for a line.     *)
(***************************************************************************)
\* file_index * MAX_LINES_PER_FILE + line_index is computed in 32-bit ints:
\* the slots whose product with MAX_LINES_PER_FILE fits
SlotLimit == 128
INT_SLOTS == 2 * SlotLimit

\* file indexes and line indexes around the ends of their ranges
FileIndexes == {0, 1, 2, SlotLimit \div 2, SlotLimit - 2, SlotLimit - 1,
                SlotLimit, SlotLimit + 1}
LineIndexes == {0, 1, 2, MAX_LINES_PER_FILE - 2, MAX_LINES_PER_FILE - 1,
                MAX_LINES_PER_FILE, MAX_LINES_PER_FILE + 1}

\* the sum does not fit an int
int_overflows(file_index, line_index) ==
    file_index + (line_index \div MAX_LINES_PER_FILE) >= SlotLimit

\* the sum wrapped to 32 bits in two's complement
int_wrapped(file_index, line_index) ==
    LET slot == (file_index + (line_index \div MAX_LINES_PER_FILE))
                    % INT_SLOTS
        signed == IF slot >= SlotLimit THEN slot - INT_SLOTS ELSE slot
    IN signed * MAX_LINES_PER_FILE + (line_index % MAX_LINES_PER_FILE)

\* rebuild_index builds con_line for the line it takes and pushes it; a sum
\* that overflows is undefined: it wraps, or the build traps
PushContentLine ==
    /\ con_line.stored = <<>>
    /\ ~crashed
    /\ LET file_index == con_line.file_index
           line_index == con_line.line_index
       IN IF ~int_overflows(file_index, line_index)
          THEN /\ con_line' = [con_line EXCEPT !.stored =
                                  <<ContentLine(file_index, line_index)>>]
               /\ UNCHANGED crashed
          ELSE \/ /\ con_line' = [con_line EXCEPT !.stored =
                                     <<int_wrapped(file_index, line_index)>>]
                  /\ UNCHANGED crashed
               \/ /\ crashed' = TRUE
                  /\ UNCHANGED con_line
    /\ UNCHANGED <<lf, pend, cut, gone, written, ld_lines_indexed, lss_index,
                   lss_filtered_index, lss_force_rebuild, paused, retval,
                   view_call, delegate_calls, last_op, pre, tfs,
                   filter_enabled, lss_min_log_level, lss_min_log_time,
                   universe, searchVars, histVars, viewVars, tf_op>>

\* rebuild_index is about to take line line_index of the file file_index
InitAddr ==
    /\ LogInit("address")
    /\ SearchInit(0)
    /\ HistInit
    /\ ViewInit
    /\ con_line \in [file_index : FileIndexes, line_index : LineIndexes,
                     stored : {<<>>}]
    /\ FilterOpInit

NextAddr == PushContentLine

SpecAddr == InitAddr /\ [][NextAddr]_vars

(***************************************************************************)
(* Looking a file up by its name: logfile_sub_source::find.                *)
(***************************************************************************)
\* the names the files of the slots go by
FileNames == {"a", "b", "c"}

\* the names asked for: those of the files and one that no file has
FindNames == FileNames \cup {"none"}

\* the loop of find from the slot iter on: a slot without a file is passed
\* over, a file of another name adds MAX_LINES_PER_FILE to line_base
RECURSIVE find_from(_, _, _, _, _)
find_from(names, detached, fn, iter, line_base) ==
    IF iter = NumSlots THEN [retval |-> <<>>, line_base |-> line_base]
    ELSE IF iter \in detached
    THEN find_from(names, detached, fn, iter + 1, line_base)
    ELSE IF names[iter] = fn
    THEN [retval |-> <<iter>>, line_base |-> line_base]
    ELSE find_from(names, detached, fn, iter + 1,
                   line_base + MAX_LINES_PER_FILE)

\* logfile_sub_source::find(fn, line_base): the file it returns (the slot
\* that holds it, <<>> for NULL) and the line_base it leaves
find(names, detached, fn) == find_from(names, detached, fn, 0, 0)

\* find is called for the name fn, for the sake of line n of the file
Find ==
    /\ ~crashed
    /\ \E fn \in FindNames, n \in 0..MaxLines :
         LET o == find(con_line.names, gone, fn)
         IN  con_line' = [con_line EXCEPT !.fn = <<fn>>, !.n = n,
                                          !.detached = gone,
                                          !.retval = o.retval,
                                          !.line_base = o.line_base]
    /\ UNCHANGED <<logVars, searchVars, histVars, viewVars, tf_op>>

\* here con_line holds the names of the files and the last call of find:
\* its arguments, the slots without a file at the time, and its results
InitFind ==
    /\ LogInit("find")
    /\ SearchInit(0)
    /\ HistInit
    /\ ViewInit
    /\ con_line \in [names : [Slots -> FileNames], fn : {<<>>}, n : {0},
                     detached : {{}}, retval : {<<>>}, line_base : {0}]
    /\ FilterOpInit

NextFind ==
    \/ FileGone
    \/ Find

SpecFind == InitFind /\ [][NextFind]_vars

(***************************************************************************)
(* The properties.                                                         *)
(***************************************************************************)
\* the last step was a call of rebuild_index that returned
Rebuilt == last_op = "rebuild_index" /\ ~crashed

\* the time of the line a content line of the index names
ClTime(cl) == ClLogline(lf, cl).t

IndexSortedByTime ==
    \A i \in 1 .. (Len(lss_index) - 1) :
        ~(ClTime(lss_index[i + 1]) < ClTime(lss_index[i]))

\* C1: the lines the positions of lss_index name are in non-decreasing order
\* of time in every state, a line that arrives late included.
C1_IndexSorted == IndexSortedByTime

\* the first line slot s had not yet indexed when the last call began is
\* older than the line at the tail of the index of then
LateLine(s) ==
    /\ pre.idx # <<>>
    /\ pre.li[s] < Len(lf[s])
    /\ lf[s][pre.li[s] + 1].t < ClTime(pre.idx[Len(pre.idx)])

\* C2: a call in which a logfile reports new lines, the first of them older
\* than the tail of the index, returns rr_full_rebuild and leaves the index
\* re-sorted.
C2_LateLineFullRebuild ==
    (Rebuilt /\ \E s \in Slots : pre.res[s] = RR_NEW_LINES /\ LateLine(s))
        => (retval = rr_full_rebuild /\ IndexSortedByTime)

\* C3: a call in which a logfile reports RR_NEW_ORDER or RR_INVALID returns
\* rr_full_rebuild, and its index is built anew from the lines of the files:
\* nothing of the index before the call stays.
C3_ReorderFullRebuild ==
    (Rebuilt /\ \E s \in Slots : pre.res[s] \in {RR_NEW_ORDER, RR_INVALID})
        => (retval = rr_full_rebuild /\ lss_index = FullSort(lf))

\* C4: when rebuild_index returns rr_appended_lines, the index of before the
\* call is a prefix of the index after it.
C4_AppendKeepsPrefix ==
    (Rebuilt /\ retval = rr_appended_lines)
        => /\ Len(pre.idx) <= Len(lss_index)
           /\ SubSeq(lss_index, 1, Len(pre.idx)) = pre.idx

\* a call returned rr_appended_lines and put lines behind a non-empty index
C4_Witness ==
    /\ Rebuilt
    /\ retval = rr_appended_lines
    /\ pre.idx # <<>>
    /\ Len(lss_index) > Len(pre.idx)

\* the rows of the filtered index
FilteredRows == {lss_filtered_index[r] : r \in 1 .. Len(lss_filtered_index)}

\* C5: in every state lss_filtered_index is strictly increasing and each of
\* its elements is a position of lss_index.
C5_FilteredIncreasing ==
    /\ \A r \in 1 .. (Len(lss_filtered_index) - 1) :
          lss_filtered_index[r] < lss_filtered_index[r + 1]
    /\ \A r \in 1 .. Len(lss_filtered_index) :
          lss_filtered_index[r] \in 0 .. (Len(lss_index) - 1)

\* a call left a filtered index of several rows that skips a position
C5_Witness ==
    /\ Rebuilt
    /\ Len(lss_filtered_index) >= 2
    /\ Len(lss_filtered_index) < Len(lss_index)
    /\ Len(lss_index) > Len(pre.idx)

\* C6: a position of lss_index is in lss_filtered_index if and only if its
\* line is not excluded by its file's filter state under the enabled filters
\* and passes the extra filters.
C6_FilteredIffAccepted ==
    ~crashed =>
        \A i \in 0 .. (Len(lss_index) - 1) :
            (i \in FilteredRows)
                <=> Accepted(lf, tfs, filter_enabled, ExtraFilters,
                             lss_index[i + 1])

\* the content lines the last call put behind the index it found
NewLines == SubSeq(lss_index, Len(pre.idx) + 1, Len(lss_index))

\* the slots that had lines to index when the last call began
Participating == {s \in Slots : pre.li[s] # Len(lf[s])}

\* how many of the first k - 1 new content lines are of slot s
TakenBefore(s, k) ==
    Cardinality({j \in 1 .. (k - 1) : ClSlot(NewLines[j]) = s})

\* C7 as stated: one call on a view that is not paused leaves every file
\* indexed to its end.
C7_OneCallFoldsAll ==
    (Rebuilt /\ ~paused)
        => \A s \in Slots : ld_lines_indexed[s] = Len(lf[s])

\* C7 amended: one call on a view that is not paused appends the lines not
\* yet indexed in merged order (each file's lines in file order, each line
\* no later than the next line of every other file in the merge) and stops
\* with the first line that is the last of its file; every ld_lines_indexed
\* advances by the lines taken.
C7_MergeUntilFileConsumed ==
    (Rebuilt /\ ~paused) =>
        /\ Len(pre.idx) <= Len(lss_index)
        /\ SubSeq(lss_index, 1, Len(pre.idx)) = pre.idx
        /\ (Participating # {}) => (NewLines # <<>>)
        /\ \A k \in 1 .. Len(NewLines) :
              LET s == ClSlot(NewLines[k])
              IN /\ s \in Participating
                 /\ ClLine(NewLines[k]) = pre.li[s] + TakenBefore(s, k)
                 /\ ClLine(NewLines[k]) < Len(lf[s])
                 /\ (ClLine(NewLines[k]) + 1 = Len(lf[s])) <=> (k = Len(NewLines))
                 /\ \A x \in Participating \ {s} :
                       LET n == pre.li[x] + TakenBefore(x, k)
                       IN /\ n < Len(lf[x])
                          /\ ~LineLess(lf[x][n + 1], ClLogline(lf, NewLines[k]))
        /\ \A s \in Slots :
              ld_lines_indexed[s] = pre.li[s] + TakenBefore(s, Len(NewLines) + 1)

\* a call merged lines of two files and left a line of one of them behind
C7_Witness ==
    /\ Rebuilt
    /\ ~paused
    /\ \E j, k \in 1 .. Len(NewLines) : ClSlot(NewLines[j]) # ClSlot(NewLines[k])
    /\ \E s \in Slots : ld_lines_indexed[s] < Len(lf[s])

\* C8: in every state ld_lines_indexed of a slot is at most the number of
\* lines of its file, also after the file has shrunk.
C8_IndexedWithinFile ==
    \A s \in Slots : ld_lines_indexed[s] <= Len(lf[s])

\* C9: a call of rebuild_index calls search_new_data exactly when it returns
\* rr_appended_lines, redo_search exactly when it returns rr_full_rebuild,
\* and neither exactly when it returns rr_no_change.
C9_SearchMatchesResult ==
    Rebuilt =>
        /\ retval \in {rr_no_change, rr_appended_lines, rr_full_rebuild}
        /\ (view_call = "search_new_data") <=> (retval = rr_appended_lines)
        /\ (view_call = "redo_search") <=> (retval = rr_full_rebuild)
        /\ (view_call = "none") <=> (retval = rr_no_change)

\* a call returned rr_appended_lines and the view searched the new data
C9_Witness ==
    /\ Rebuilt
    /\ retval = rr_appended_lines
    /\ view_call = "search_new_data"
    /\ Len(lss_index) > Len(pre.idx)

\* C10: a call that returns rr_no_change leaves lss_index,
\* lss_filtered_index and every ld_lines_indexed as they were and calls
\* nothing of the index delegate.
C10_NoChangeIsNoOp ==
    (Rebuilt /\ retval = rr_no_change)
        => /\ lss_index = pre.idx
           /\ lss_filtered_index = pre.filt
           /\ ld_lines_indexed = pre.li
           /\ delegate_calls = <<>>

\* C11: a call that finds a slot's file gone while lines of it are indexed
\* returns rr_full_rebuild and leaves no content line of that slot in
\* lss_index, and every row of lss_filtered_index names a line of a file
\* that is still there.
C11_GoneFileFullRebuild ==
    (Rebuilt /\ \E s \in gone : pre.li[s] > 0)
        => /\ retval = rr_full_rebuild
           /\ \A i \in 1 .. Len(lss_index) : ClSlot(lss_index[i]) \notin gone
           /\ \A i \in FilteredRows :
                 /\ ClSlot(lss_index[i + 1]) \notin gone
                 /\ ClValid(lf, lss_index[i + 1])

\* the lines of the message of line n (0-based) of slot s: from its head to
\* the line before the next head
MsgHead(s, n) ==
    CHOOSE h \in 0 .. n :
        /\ \A k \in (h + 1) .. n : lf[s][k + 1].cont
        /\ (h = 0 \/ ~lf[s][h + 1].cont)
MsgLines(s, n) ==
    {k \in MsgHead(s, n) .. (Len(lf[s]) - 1) :
        \A j \in (MsgHead(s, n) + 1) .. k : lf[s][j + 1].cont}

Refiltered == last_op = "text_filters_changed" /\ ~crashed

\* the mask of the line at position i (0-based) of lss_index
MaskAt(i) == tfs[ClSlot(lss_index[i + 1])].tfs_mask[ClLine(lss_index[i + 1]) + 1]

\* C14: after text_filters_changed a position is left out of
\* lss_filtered_index exactly when its mask has a bit of an enabled EXCLUDE
\* filter, or some INCLUDE filter is enabled and its mask has no bit of one
\* (the extra filters admitting the line).
C14_ExcludedByMasks ==
    Refiltered =>
        \A i \in 0 .. (Len(lss_index) - 1) :
            check_extra_filters(ExtraFilters, ClLogline(lf, lss_index[i + 1]))
            => ((i \notin FilteredRows)
                  <=> \/ \E p \in filter_enabled :
                           FilterType(p) = "EXCLUDE" /\ p \in MaskAt(i)
                      \/ /\ \E p \in filter_enabled : FilterType(p) = "INCLUDE"
                         /\ \A p \in filter_enabled :
                               FilterType(p) = "INCLUDE" => p \notin MaskAt(i))

\* three one-line messages, the first matching the INCLUDE filter, the
\* second none, the third both filters; both enabled; only row 0 is shown
C14_Witness ==
    /\ Refiltered
    /\ Len(lf[0]) = 3
    /\ \A n \in 1 .. 3 : ~lf[0][n].cont
    /\ lf[0][1].hit = {0} /\ lf[0][2].hit = {} /\ lf[0][3].hit = {0, 1}
    /\ Len(lss_index) = 3
    /\ filter_enabled = {0, 1}
    /\ lss_filtered_index = <<0>>

\* C15: text_filters_changed leaves lss_index and every ld_lines_indexed as
\* they are, and leaves in lss_filtered_index exactly the positions of the
\* whole lss_index that the filters now admit.
C15_FiltersChangedFrame ==
    [][(last_op' = "text_filters_changed" /\ ~crashed')
        => /\ lss_index' = lss_index
           /\ ld_lines_indexed' = ld_lines_indexed
           /\ lss_filtered_index' =
                 SetToSeq({i \in 0 .. (Len(lss_index) - 1) :
                             Accepted(lf', tfs', filter_enabled', ExtraFilters',
                                      lss_index[i + 1])})]_vars

\* filters that admit no line: the filtered index is empty and the index
\* keeps its entries
C15_Witness ==
    /\ Refiltered
    /\ Len(lss_index) >= 2
    /\ lss_filtered_index = <<>>
    /\ \A s \in Slots : ld_lines_indexed[s] = Len(lf[s])

\* the last operation was an execute_search that started a search
SearchStarted ==
    /\ search_op.name = "execute_search"
    /\ search_op.fresh
    /\ tc_search_child # <<>>

\* how many of the queued requests search the row
TimesSearched(row) ==
    Cardinality({i \in DOMAIN gp_queue : InRequest(gp_queue[i], row)})

\* C16: when execute_search starts a search with the top of the view at row
\* T, the first request queued is the forward range from max(0, T - 2000);
\* a second request, for the rows before that start, is queued after it
\* only when the start is above 0; every row is searched exactly once.
C16_SearchRanges ==
    SearchStarted =>
      LET back  == tc_top - REVERSE_SEARCH_OFFSET
          start == IF back > 0 THEN back ELSE 0
      IN  /\ Len(gp_queue) = (IF start > 0 THEN 2 ELSE 1)
          /\ gp_queue[1].start = start
          /\ \A row \in 0..(tc_line_count - 1) :
                /\ TimesSearched(row) = 1
                /\ InRequest(gp_queue[1], row) <=> row >= start
                /\ row < start => InRequest(gp_queue[2], row)

C16_Witness ==
    /\ SearchStarted
    /\ tc_top > REVERSE_SEARCH_OFFSET
    /\ Len(gp_queue) = 2
    /\ tc_line_count > tc_top

\* the last operation was an execute_search of a text that does not compile
SearchOfBadRegex ==
    /\ search_op.name = "execute_search"
    /\ search_op.regex # <<>>
    /\ pcre_compile(search_op.regex) = <<>>

RowOf(hist, n) == find_from_content(FromNewest(hist, n))

\* the entries older than the cursor, and newer, that resolve to a row
OlderResolved(hist, pos) ==
    {n \in (pos + 1)..(Len(hist) - 1) : RowOf(hist, n) # <<>>}
NewerResolved(hist, pos) ==
    {n \in 0..(pos - 1) : RowOf(hist, n) # <<>>}

Least(S) == CHOOSE n \in S : \A m \in S : n <= m
Greatest(S) == CHOOSE n \in S : \A m \in S : n >= m

\* the step is the location-history operation of that name
HistStep(name) == lh_op'.name = name /\ UNCHANGED logVars

\* the entries at the cursor and older
UpToCursor(hist, pos) == SubSeq(hist, 1, Len(hist) - pos)

\* C18 as claimed: loc_history_append(top) with top below the number of
\* visible rows removes exactly the entries newer than the cursor, appends
\* the content line of row top as the newest entry and sets the cursor to 0,
\* the entries at the cursor and older staying as they were; with top at or
\* above the number of visible rows it changes nothing.
C18_AppendTruncates ==
    [][HistStep("append") =>
         IF lh_op'.top < text_line_count
         THEN /\ llh_history' =
                   Append(UpToCursor(llh_history, lh_history_position),
                          at(lh_op'.top))
              /\ lh_history_position' = 0
         ELSE /\ llh_history' = llh_history
              /\ lh_history_position' = lh_history_position]_vars

\* C18 amended: as claimed, except that when the entries at the cursor and
\* older already fill the ring, the oldest of them is given up for the new
\* entry.
C18_AppendTruncatesInRing ==
    [][HistStep("append") =>
         IF lh_op'.top < text_line_count
         THEN LET kept == UpToCursor(llh_history, lh_history_position)
                  room == IF Len(kept) < MaxHist THEN kept
                          ELSE SubSeq(kept, 2, Len(kept))
              IN  /\ llh_history' = Append(room, at(lh_op'.top))
                  /\ lh_history_position' = 0
         ELSE /\ llh_history' = llh_history
              /\ lh_history_position' = lh_history_position]_vars

C18_Witness ==
    /\ lh_op.name = "append"
    /\ lh_op.pos > 0
    /\ lh_op.top < text_line_count
    /\ Len(llh_history) >= 2
    /\ lh_history_position = 0

\* C19: loc_history_back moves the cursor toward older entries and skips
\* the entries that resolve to no row: whenever an entry older than the
\* cursor resolves, back() returns the row of the nearest one and the
\* cursor is on it, wherever the cursor was.
C19_BackFindsOlder ==
    [][(HistStep("back")
          /\ OlderResolved(llh_history, lh_history_position) # {}) =>
         LET n == Least(OlderResolved(llh_history, lh_history_position))
         IN  /\ lh_ret' = RowOf(llh_history, n)
             /\ lh_history_position' = n]_vars

\* what C20 says of forward alone: it moves to the nearest newer entry that
\* resolves and returns its row; with none it returns none, and at the
\* newest entry it changes nothing.
ForwardFindsNewer ==
    HistStep("forward") =>
      IF NewerResolved(llh_history, lh_history_position) # {}
      THEN LET n == Greatest(NewerResolved(llh_history, lh_history_position))
           IN  /\ lh_ret' = RowOf(llh_history, n)
               /\ lh_history_position' = n
      ELSE /\ lh_ret' = <<>>
           /\ llh_history' = llh_history
           /\ (lh_history_position = 0 => lh_history_position' = 0)

\* a back() called with the view on the cursor's row, every entry resolving,
\* is followed by a forward()
BackThenForward ==
    /\ lh_op.name = "back"
    /\ lh_op.rows = lss_filtered_index
    /\ HistStep("forward")
    /\ lh_op.pos < Len(llh_history)
    /\ RowOf(llh_history, lh_op.pos) = <<lh_op.top>>
    /\ \A n \in 0..(Len(llh_history) - 1) : RowOf(llh_history, n) # <<>>

\* the forward() gives the row and the cursor the back() began with
RoundTrip ==
    /\ lh_ret' = <<lh_op.top>>
    /\ lh_history_position' = lh_op.pos

\* C20 as claimed: forward mirrors back, and when all entries resolve and
\* the view is on the cursor's row, back() followed by forward() returns the
\* row that was current before back() and restores the cursor.
C20_BackForwardRoundTrip ==
    [][ForwardFindsNewer /\ (BackThenForward => RoundTrip)]_vars

\* C20 amended: the round trip holds when the back() returned a row; a
\* back() at the oldest entry returns none and leaves the cursor, and the
\* forward() after it moves on to the next newer entry.
C20_ForwardMirrorsBack ==
    [][ForwardFindsNewer
         /\ ((BackThenForward /\ lh_ret # <<>>) => RoundTrip)]_vars

C20_Witness ==
    /\ lh_op.name = "forward"
    /\ lh_op.pos = 2
    /\ lh_history_position = 0
    /\ lh_ret # <<>>
    /\ RowOf(llh_history, 1) = <<>>

\* the step is a text_attrs_for_line
AttrsStep ==
    /\ lss_token.attrs = <<>>
    /\ lss_token'.attrs # <<>>
    /\ UNCHANGED logVars

\* C21: the file-boundary glyph of a row is decided by whether the row and
\* the row after it are in BM_FILES (corner down, horizontal line, corner
\* up, vertical line), and with the bookmarks up to date every row of a
\* file of one line gets the horizontal line, also when that file is the
\* last or the only one of the view.
C21_FileGlyph ==
    [][AttrsStep =>
         LET a     == lss_token'.attrs[1]
             first == a.row \in tc_bookmarks.BM_FILES
             last  == (a.row + 1) \in tc_bookmarks.BM_FILES
         IN  /\ a.graph = (CASE first /\ ~last -> "ACS_ULCORNER"
                             [] first /\ last  -> "ACS_HLINE"
                             [] ~first /\ last -> "ACS_LLCORNER"
                             [] OTHER          -> "ACS_VLINE")
             /\ (/\ tc_bookmarks = text_update_marks
                 /\ Len(lf[lss_token.file]) = 1
                 /\ pend[lss_token.file] = <<>>)
                  => a.graph = "ACS_HLINE"]_vars

\* the step is a text_value_for_line
ValueStep ==
    /\ lss_token' # lss_token
    /\ ~AttrsStep
    /\ UNCHANGED <<logVars, tc_bookmarks>>

\* the renderer state proper: token file, line, value, flags and attributes
TokenState(tok) == <<tok.file, tok.line, tok.value, tok.flags, tok.attrs>>

\* C22: text_value_for_line for a row that is negative or not below the
\* number of rows of FilteredIndex fails its precondition and ends the
\* process with the renderer state (token file, line, value, attributes) as
\* it was; for any other row it does not.
C22_RenderPrecondition ==
    [][ValueStep =>
         IF lss_token'.row < 0 \/ lss_token'.row >= Len(lss_filtered_index)
         THEN /\ lss_token'.aborted
              /\ TokenState(lss_token') = TokenState(lss_token)
         ELSE ~lss_token'.aborted]_vars

C22_Witness ==
    /\ lss_token.aborted
    /\ lss_token.row = Len(lss_filtered_index)
    /\ lss_token.file >= 0
    /\ lss_token.attrs # <<>>

\* the content line stored decodes to the file and the line it was built of
DecodesToOrigin ==
    /\ ClSlot(con_line.stored[1]) = con_line.file_index
    /\ ClLine(con_line.stored[1]) = con_line.line_index

\* the line is within the range a content line can name
Encodable ==
    /\ con_line.line_index < MAX_LINES_PER_FILE
    /\ con_line.file_index < SlotLimit

C24_EncodingRejectsOverflow ==
    con_line.stored # <<>> => (Encodable /\ DecodesToOrigin)

\* what rebuild_index and text_filters_changed maintain, and the bookmarks
\* that text_update_marks derives from it
IndexState ==
    <<lf, ld_lines_indexed, lss_index, lss_filtered_index, tfs,
      filter_enabled, tc_bookmarks>>

\* the worker's requests and what its callbacks maintain
WorkerState == <<gp_queue, gp_running, tc_searching, bm_search>>

IndexLineCalls(filt) == [k \in 1 .. Len(filt) |-> <<"index_line", filt[k]>>]

\* the positions the last rebuild_index pushed onto the filtered index
PushedPositions ==
    SubSeq(lss_filtered_index, Len(pre.filt) + 1, Len(lss_filtered_index))

\* C26: a rebuild_index that extends the index calls index_start if and only
\* if the index was empty before, then index_line once for each position it
\* pushed onto the filtered index, in increasing order, then index_complete
\* once; text_filters_changed calls index_start, index_line once for each
\* accepted position, then index_complete.
C26_DelegateCallOrder ==
    /\ (last_op = "rebuild_index" /\ ~crashed /\ Len(lss_index) > Len(pre.idx))
          => /\ delegate_calls =
                   (IF pre.idx = <<>> THEN <<<<"index_start", 0>>>> ELSE <<>>)
                     \o IndexLineCalls(PushedPositions)
                     \o <<<<"index_complete", 0>>>>
             /\ \A k \in 1 .. (Len(PushedPositions) - 1) :
                   PushedPositions[k] < PushedPositions[k + 1]
             /\ \A k \in 1 .. Len(PushedPositions) :
                   PushedPositions[k] >= Len(pre.idx)
    /\ (last_op = "text_filters_changed" /\ ~crashed)
          => delegate_calls =
                <<<<"index_start", 0>>>>
                  \o IndexLineCalls(lss_filtered_index)
                  \o <<<<"index_complete", 0>>>>

\* an index that was not empty was extended by lines of which one was
\* accepted and one was not
C26_Witness ==
    /\ last_op = "rebuild_index"
    /\ ~crashed
    /\ pre.idx # <<>>
    /\ Len(lss_index) >= Len(pre.idx) + 2
    /\ Len(PushedPositions) = 1
    /\ Len(delegate_calls) = 2

\* a file that is gone has indexed lines
GoneWithIndexedLines == \E s \in gone : ld_lines_indexed[s] > 0

\* C27: a rebuild_index under a paused view re-observes no file: every
\* logfile keeps its lines and its filter state and what was written to it
\* stays unread; and unless lss_force_rebuild was set or a file with indexed
\* lines is gone, the call returns rr_no_change.
C27_PausedReturnsNoChange ==
    [][ (last_op' = "rebuild_index" /\ paused /\ ~crashed')
          => /\ lf' = lf
             /\ tfs' = tfs
             /\ pend' = pend
             /\ \A s \in Slots : pre'.res[s] = "none"
             /\ (~lss_force_rebuild /\ ~GoneWithIndexedLines)
                   => retval' = rr_no_change ]_vars

\* a paused view was rebuilt while a file had lines that were not read
C27_Witness ==
    /\ last_op = "rebuild_index"
    /\ paused
    /\ ~crashed
    /\ retval = rr_no_change
    /\ \E s \in Slots : pend[s] # <<>> /\ lf[s] # <<>>

\* the last call of rebuild_index ran its merge and the filter loop after it
MergePass == Rebuilt /\ delegate_calls # <<>>

\* the slot whose line the last merge pass took last
LastTaken == ClSlot(NewLines[Len(NewLines)])

\* C28: a merge pass appends lines in ascending merge order (each line
\* appended is the first line not yet taken of its file and is not later
\* than the first line not yet taken of any other file in the merge) until
\* it has appended the last line of one file in the merge, and then stops:
\* no line before the last appended is the last of its file, the other files
\* keep lines that are not indexed, and a pass with a file in the merge
\* appends at least one line.
C28_MergePassStops ==
    MergePass =>
        /\ SubSeq(lss_index, 1, Len(pre.idx)) = pre.idx
        /\ \A s \in Slots \ Participating : ld_lines_indexed[s] = pre.li[s]
        /\ \A k \in 1 .. Len(NewLines) :
              LET s == ClSlot(NewLines[k])
              IN /\ s \in Participating
                 /\ ClLine(NewLines[k]) = pre.li[s] + TakenBefore(s, k)
                 /\ (k < Len(NewLines))
                       => ClLine(NewLines[k]) + 1 < Len(lf[s])
                 /\ \A x \in Participating \ {s} :
                       ~LineLess(lf[x][pre.li[x] + TakenBefore(x, k) + 1],
                                 ClLogline(lf, NewLines[k]))
        /\ (Participating # {}) =>
              /\ NewLines # <<>>
              /\ ld_lines_indexed[LastTaken] = Len(lf[LastTaken])
              /\ ClLine(NewLines[Len(NewLines)]) + 1 = Len(lf[LastTaken])
              /\ \A x \in Participating \ {LastTaken} :
                    /\ ld_lines_indexed[x] < Len(lf[x])
                    /\ \A n \in ld_lines_indexed[x] .. (Len(lf[x]) - 1) :
                          \A i \in 1 .. Len(lss_index) :
                             lss_index[i] # ContentLine(x, n)

\* a pass took lines of two files, stopped at the end of one and left a line
\* of the other
C28_Witness ==
    /\ MergePass
    /\ Len(NewLines) >= 2
    /\ \E k \in 1 .. Len(NewLines) : ClSlot(NewLines[k]) # LastTaken
    /\ \E x \in Participating \ {LastTaken} : ld_lines_indexed[x] < Len(lf[x])

\* the lines of the message filter p has open in the filter state lfs
OpenLines(lfs, p) ==
    lfs.tfs_filter_count[p]
        .. (lfs.tfs_filter_count[p] + lfs.tfs_lines_for_message[p] - 1)

\* the fields of the filters other than p are the same in a and b
OthersSame(a, b, p) ==
    \A q \in Preds \ {p} :
        /\ a.tfs_filter_count[q] = b.tfs_filter_count[q]
        /\ a.tfs_filter_hits[q] = b.tfs_filter_hits[q]
        /\ a.tfs_message_matched[q] = b.tfs_message_matched[q]
        /\ a.tfs_lines_for_message[q] = b.tfs_lines_for_message[q]
        /\ a.tfs_last_message_matched[q] = b.tfs_last_message_matched[q]
        /\ a.tfs_last_lines_for_message[q] = b.tfs_last_lines_for_message[q]

\* C29: add_line on a line that is not a continuation first ends the message
\* before it (its lines are counted, and marked in the mask and counted as
\* hits if it matched) and then starts a message of one line whose match is
\* that of the line alone; add_line on a continuation adds one to the lines
\* of the message, ors the line's match into the message's, and leaves
\* tfs_filter_count, tfs_filter_hits and tfs_mask as they are.
C29_AddLineAccumulates ==
    [][ tf_op'.name = "add_line" =>
          LET p  == tf_op'.p
              ll == lf[0][tf_op'.offset + 1]
              b  == tfs[0]
              a  == tfs'[0]
              n  == b.tfs_lines_for_message[p]
          IN /\ ~a.failed
             /\ OthersSame(a, b, p)
             /\ IF ~ll.cont
                THEN /\ a.tfs_lines_for_message[p] = 1
                     /\ a.tfs_message_matched[p] = (p \in ll.hit)
                     /\ a.tfs_filter_count[p] = b.tfs_filter_count[p] + n
                     /\ a.tfs_filter_hits[p] = b.tfs_filter_hits[p]
                           + (IF b.tfs_message_matched[p] THEN n ELSE 0)
                     /\ a.tfs_last_lines_for_message[p] = n
                     /\ a.tfs_last_message_matched[p] = b.tfs_message_matched[p]
                     /\ Len(a.tfs_mask) = Len(b.tfs_mask)
                     /\ \A i \in 1 .. Len(b.tfs_mask) :
                           a.tfs_mask[i] =
                              IF (i - 1) \in OpenLines(b, p)
                                    /\ b.tfs_message_matched[p]
                              THEN b.tfs_mask[i] \cup {p}
                              ELSE b.tfs_mask[i]
                ELSE /\ a.tfs_lines_for_message[p] = n + 1
                     /\ a.tfs_message_matched[p]
                           = (b.tfs_message_matched[p] \/ (p \in ll.hit))
                     /\ a.tfs_filter_count[p] = b.tfs_filter_count[p]
                     /\ a.tfs_filter_hits[p] = b.tfs_filter_hits[p]
                     /\ a.tfs_mask = b.tfs_mask ]_vars

\* add_line on the first line of a message that does not match ended a
\* message of two lines that matched
C29_Witness ==
    LET p == tf_op.p
    IN /\ tf_op.name = "add_line"
       /\ ~lf[0][tf_op.offset + 1].cont
       /\ p \notin lf[0][tf_op.offset + 1].hit
       /\ tfs[0].tfs_lines_for_message[p] = 1
       /\ ~tfs[0].tfs_message_matched[p]
       /\ tfs[0].tfs_last_lines_for_message[p] = 2
       /\ tfs[0].tfs_filter_hits[p] = 2

\* C30: revert_to_last called with lines of a message open fails its
\* precondition; called after end_of_message it restores tfs_filter_count
\* and tfs_filter_hits to what end_of_message found and clears the filter's
\* bit in the mask of exactly the lines of that message; with rollback size 0
\* it restores tfs_message_matched and tfs_lines_for_message as well, and with
\* rollback size k it leaves k lines fewer in the message and clears
\* tfs_message_matched if none is left.
C30_RevertUndoesEndOfMessage ==
    [][ tf_op'.name = "revert_to_last" =>
          LET p  == tf_op'.p
              k  == tf_op'.k
              b  == tfs[0]
              a  == tfs'[0]
              b0 == tf_op.before[1]
              n  == b0.tfs_lines_for_message[p]
          IN /\ (b.tfs_lines_for_message[p] # 0) => a.failed
             /\ (tf_op.name = "end_of_message") =>
                   /\ b.tfs_lines_for_message[p] = 0
                   /\ OthersSame(a, b, p)
                   /\ a.tfs_filter_count[p] = b0.tfs_filter_count[p]
                   /\ a.tfs_filter_hits[p] = b0.tfs_filter_hits[p]
                   /\ Len(a.tfs_mask) = Len(b.tfs_mask)
                   /\ \A i \in 1 .. Len(b.tfs_mask) :
                         a.tfs_mask[i] =
                            IF (i - 1) \in OpenLines(b0, p)
                            THEN b.tfs_mask[i] \ {p}
                            ELSE b.tfs_mask[i]
                   /\ (k = 0) =>
                         /\ ~a.failed
                         /\ a.tfs_message_matched[p] = b0.tfs_message_matched[p]
                         /\ a.tfs_lines_for_message[p] = n
                   /\ (k <= n) =>
                         /\ ~a.failed
                         /\ a.tfs_lines_for_message[p] = n - k
                         /\ a.tfs_message_matched[p] =
                               (n - k > 0 /\ b0.tfs_message_matched[p]) ]_vars

\* the end of a message of two lines that matched was undone, and the last
\* line rolled back
C30_Witness ==
    LET p == tf_op.p
    IN /\ tf_op.name = "revert_to_last"
       /\ tf_op.k = 1
       /\ ~tfs[0].failed
       /\ tfs[0].tfs_last_lines_for_message[p] = 2
       /\ tfs[0].tfs_lines_for_message[p] = 1
       /\ tfs[0].tfs_message_matched[p]
       /\ tfs[0].tfs_filter_hits[p] = 0
\* the step recomputes the bookmarks (reload_data, alone or at the end of
\* text_filters_changed)
MarksStep == tc_bookmarks' # tc_bookmarks

\* the file and the line of a row of the filtered index
RowFile(filt, r) == lss_index'[filt[r + 1] + 1] \div MAX_LINES_PER_FILE
RowLine(filt, r) ==
    lf'[RowFile(filt, r)][(lss_index'[filt[r + 1] + 1] % MAX_LINES_PER_FILE) + 1]

\* C31: text_update_marks leaves bookmark sets that are a function of the
\* filtered index alone, whatever they held before: BM_FILES is row 0 and
\* every row whose file is not the file of the row before, BM_ERRORS the
\* rows that begin a message of level ERROR, CRITICAL or FATAL, BM_WARNINGS
\* the rows that begin a message of level WARNING; a continuation row is in
\* neither level set.
C31_MarksFromFilteredIndex ==
    [][MarksStep =>
         LET filt == lss_filtered_index'
             rows == 0..(Len(filt) - 1)
             head(r) == ~RowLine(filt, r).cont
         IN  /\ tc_bookmarks'.BM_FILES =
                   {r \in rows : r = 0 \/ RowFile(filt, r) # RowFile(filt, r - 1)}
             /\ tc_bookmarks'.BM_ERRORS =
                   {r \in rows : head(r) /\ RowLine(filt, r).lvl \in
                                    {LEVEL_ERROR, LEVEL_CRITICAL, LEVEL_FATAL}}
             /\ tc_bookmarks'.BM_WARNINGS =
                   {r \in rows : head(r) /\ RowLine(filt, r).lvl = LEVEL_WARNING}
             /\ \A r \in rows :
                   ~head(r) => /\ r \notin tc_bookmarks'.BM_ERRORS
                               /\ r \notin tc_bookmarks'.BM_WARNINGS]_vars

\* the minimum level was raised to ERROR and hides one of two lines: the
\* FATAL line left is row 0, and the bookmarks are those of that row alone
C31_Witness ==
    /\ last_op = "text_filters_changed"
    /\ lss_min_log_level = LEVEL_ERROR
    /\ Len(lss_index) = 2
    /\ Len(lss_filtered_index) = 1
    /\ tc_bookmarks = [BM_FILES |-> {0}, BM_WARNINGS |-> {}, BM_ERRORS |-> {0}]
    /\ ClLogline(lf, at(0)).lvl = LEVEL_FATAL
\* every line of every attached file is in the index
AllIndexed ==
    \A s \in Slots \ gone :
        /\ pend[s] = <<>>
        /\ ld_lines_indexed[s] = Len(lf[s])

\* C32: on a view that stays unpaused, with files that have stopped
\* growing, the repeated calls of rebuild_index reach a state that lasts
\* in which every attached file has ld_lines_indexed = size() (the lines
\* a pass left behind when it stopped at the end of one file are taken by
\* later passes), and from then on each call returns rr_no_change.
C32_TicksIndexEveryLine ==
    (<>[](~paused)) =>
        <>[](/\ AllIndexed
             /\ (last_op = "rebuild_index" => retval = rr_no_change))

\* both files were written before the first call; the pass ended with one
\* file and later calls, with nothing new written, took the rest
C32_Witness ==
    /\ AllIndexed
    /\ ~paused
    /\ last_op = "rebuild_index"
    /\ retval = rr_no_change
    /\ Len(lss_index) = MaxLines
    /\ \A s \in Slots : lf[s] # <<>>
\* the content lines of slot s in the index, in the order of the index
OfSlot(s) == SelectSeq(lss_index, LAMBDA cl : ClSlot(cl) = s)

\* C33: in every state the index holds, for each slot, exactly the content
\* lines of the lines 0 .. ld_lines_indexed - 1 of that slot, once each
\* and in increasing order of line number, and no other content line: the
\* line index the merge loop pushes (ld_lines_indexed++) is the position
\* of the line the merge hands out, as the loop's ensure() asserts.
C33_IndexIsIndexedLines ==
    /\ \A i \in 1..Len(lss_index) : ClSlot(lss_index[i]) \in Slots
    /\ \A s \in Slots :
          OfSlot(s) = [k \in 1..ld_lines_indexed[s] |-> ContentLine(s, k - 1)]

\* two files folded into one index, the lines of each in order
C33_Witness ==
    /\ last_op = "rebuild_index"
    /\ lss_index = <<ContentLine(0, 0), ContentLine(1, 0), ContentLine(0, 1)>>
    /\ ld_lines_indexed = [s \in Slots |-> IF s = 0 THEN 2 ELSE IF s = 1 THEN 1 ELSE 0]
\* C34: with files whose lines are in non-decreasing order of time, and
\* as long as no call of rebuild_index observes a first new line older than
\* the tail of the index (no file reports RR_NEW_ORDER or RR_INVALID), the
\* index is in non-decreasing order of time after every pass, the passes
\* that stopped at the end of one file and those that took the lines such
\* a pass left behind included.
C34_OrderedPassesKeepOrder ==
    /\ IndexSortedByTime
    /\ last_op = "rebuild_index" =>
          \A s \in Slots : pre.res[s] \notin {RR_NEW_ORDER, RR_INVALID}

\* a pass that found two lines indexed and only the second file with
\* lines to take (written since, or left behind by the pass that stopped
\* at the end of the first file) added a third, later than the first
C34_Witness ==
    /\ last_op = "rebuild_index"
    /\ Len(pre.idx) = 2
    /\ Len(lss_index) = 3
    /\ pre.res = [s \in Slots |-> IF s = 1 THEN RR_NEW_LINES ELSE RR_NO_NEW_LINES]
    /\ Len(lf[0]) = 1
    /\ ClTime(lss_index[1]) < ClTime(lss_index[3])
    /\ ClSlot(lss_index[3]) = 1
\* the step is the callback name
GrepStep(name) == search_op'.name = name /\ UNCHANGED <<logVars, viewVars>>

\* C35: tc_searching is never negative and is the number of grep_begin
\* calls that no grep_end has answered (the requests being searched),
\* however the callbacks of the worker, the user's searches and scrolling
\* interleave: grep_begin raises it by one, grep_end lowers it by one,
\* grep_end_batch and grep_match leave it as it is.
C35_SearchingCountsBegins ==
    /\ [](tc_searching >= 0 /\ tc_searching = Len(gp_running))
    /\ [][/\ GrepStep("grep_begin") => tc_searching' = tc_searching + 1
          /\ GrepStep("grep_end") => tc_searching' = tc_searching - 1
          /\ GrepStep("grep_end_batch") => tc_searching' = tc_searching
          /\ GrepStep("grep_match") => tc_searching' = tc_searching]_vars

\* a batch of the first request ended with a match delivered, the request
\* still being searched
C35_Witness ==
    /\ search_op.name = "grep_end_batch"
    /\ tc_searching = 1
    /\ bm_search # {}
    /\ gp_queue # <<>>

\* the worker took up a request and the view was told
BeginStep == search_op'.name = "grep_begin" /\ gp_running' # <<>>

\* C36: grep_begin(start, stop) with start # -1 removes every SEARCH mark
\* whose row lies in the range searched again and leaves the SEARCH marks
\* outside the range and the marks of every other kind as they are; with
\* start = -1 it removes none; a grep_match keeps every mark and adds at
\* most one row.
C36_GrepBeginClearsRange ==
    [][/\ BeginStep =>
            /\ ~crashed'
            /\ bm_search' =
                 IF gp_running'[1].start # -1
                 THEN {m \in bm_search : ~InRequest(gp_running'[1], m)}
                 ELSE bm_search
            /\ tc_bookmarks' = tc_bookmarks
       /\ search_op'.name = "grep_match" =>
            /\ bm_search \subseteq bm_search'
            /\ Cardinality(bm_search' \ bm_search) <= 1
            /\ tc_bookmarks' = tc_bookmarks]_vars

\* a range of two marks with a third mark behind it was searched again, and
\* grep_begin left a mark of the range and took the mark behind it
C36_RangeLeftMarked ==
    /\ search_op.name = "grep_begin"
    /\ ~crashed
    /\ gp_running = <<Request(0, 2)>>
    /\ bm_search = {1}

\* the search child is the one execute_search(regex_orig) starts: no two of
\* the texts searched for are compiled to the same pattern, so the pattern
\* of the child tells the text that started it
StartedBy(regex_orig) ==
    /\ tc_search_child # <<>>
    /\ tc_search_child =
         (IF pcre_compile(regex_orig) # <<>> THEN pcre_compile(regex_orig)
          ELSE pcre_compile(QuoteMeta(regex_orig)))

\* the step is an execute_search
SearchStep == search_op'.name = "execute_search"

\* C37: execute_search called again with the text that started the search
\* child neither resets the matches nor starts a new worker, also when the
\* text did not compile and was replaced by its quoted form; called with
\* the empty text it clears the matches and leaves no worker.
C37_SearchIdempotent ==
    [][SearchStep =>
         /\ StartedBy(search_op'.regex) =>
               /\ ~search_op'.fresh
               /\ bm_search' = bm_search
               /\ tc_search_child' = tc_search_child
               /\ gp_queue' = gp_queue
               /\ gp_running' = gp_running
         /\ search_op'.regex = <<>> =>
               /\ bm_search' = {}
               /\ tc_search_child' = <<>>
               /\ tc_source_search_child' = <<>>
               /\ gp_queue' = <<>>
               /\ gp_running' = <<>>]_vars

\* the attached files of the name find was called for
Named ==
    {s \in Slots \ con_line.detached : con_line.names[s] = con_line.fn[1]}

\* C38: find(filename, line_base) returns the first attached file of that
\* name and leaves line_base = slot index * MAX_LINES_PER_FILE of its slot,
\* whichever slots before it have no file, so that line_base + n is the
\* content line rebuild_index stores for line n of the file; when no
\* attached file has the name it returns NULL.
C38_FindGivesSlotBase ==
    (universe = "find" /\ con_line.fn # <<>>) =>
        IF Named = {} THEN con_line.retval = <<>>
        ELSE LET slot == CHOOSE s \in Named : \A o \in Named : s <= o
             IN  /\ con_line.retval = <<slot>>
                 /\ con_line.line_base = slot * MAX_LINES_PER_FILE
                 /\ con_line.line_base + con_line.n
                      = ContentLine(slot, con_line.n)

\* the file of slot 0 was closed, find was asked for the file of slot 1
\* and left the line_base of slot 0
C38_BaseOfDetachedSlot ==
    /\ universe = "find"
    /\ con_line.fn # <<>>
    /\ con_line.detached = {0}
    /\ con_line.retval = <<1>>
    /\ con_line.line_base = 0

\* the lines filter p has counted whose mask has the bit of p
HitLines(lfs, p) ==
    {i \in 1 .. lfs.tfs_filter_count[p] :
        i <= Len(lfs.tfs_mask) /\ p \in lfs.tfs_mask[i]}

\* the counters of filter p agree with the mask and with the file
CountersAgree(lfs, p) ==
    /\ 0 <= lfs.tfs_filter_hits[p]
    /\ lfs.tfs_filter_hits[p] <= lfs.tfs_filter_count[p]
    /\ lfs.tfs_filter_count[p] <= Len(lfs.tfs_mask)
    /\ lfs.tfs_filter_hits[p] = Cardinality(HitLines(lfs, p))

\* C39: after any sequence of add_line, end_of_message and revert_to_last
\* calls whose preconditions held, 0 <= tfs_filter_hits[p] <=
\* tfs_filter_count[p], tfs_filter_hits[p] is the number of lines below
\* tfs_filter_count[p] whose mask has bit p, and tfs_filter_count[p] +
\* tfs_lines_for_message[p] is the number of lines added less the lines
\* rolled back: every add_line raises the sum by one, end_of_message keeps
\* it, revert_to_last(k) lowers it by the k lines it takes from the message
\* it opens again; a revert_to_last called with no line of a message open
\* does not run the counters below zero.
C39_CountersConsistent ==
    /\ [](~tfs[0].failed => CountersAgree(tfs[0], tf_op.p))
    /\ [][LET p == tf_op'.p
              b == tfs[0]
              a == tfs'[0]
          IN /\ tf_op'.name = "add_line" =>
                   NextOffset(a, p) = NextOffset(b, p) + 1
             /\ tf_op'.name = "end_of_message" =>
                   NextOffset(a, p) = NextOffset(b, p)
             /\ (tf_op'.name = "revert_to_last"
                   /\ b.tfs_lines_for_message[p] = 0) =>
                   /\ ~a.failed
                   /\ NextOffset(a, p) = NextOffset(b, p)
                        - (IF a.tfs_lines_for_message[p] + tf_op'.k
                                = b.tfs_last_lines_for_message[p]
                              /\ b.tfs_last_lines_for_message[p] > 0
                           THEN tf_op'.k ELSE 0)]_vars

\* the message of one line was closed, its line rolled back, and the line
\* rolled back a second time
C39_RevertedTwice ==
    /\ tf_op.name = "revert_to_last"
    /\ tf_op.k = 1
    /\ tfs[0].failed
    /\ tfs[0].tfs_filter_count[tf_op.p] = SIZE_T_MOD - 1

\* C40: after any sequence of loc_history_append, loc_history_back and
\* loc_history_forward calls (and of changes of the filters between them)
\* the cursor is on an entry of the history: lh_history_position is 0 when
\* the history is empty and at least 0 and below its size otherwise, so the
\* place size - lh_history_position from which append erases lies within
\* the history.
C40_CursorInHistory ==
    /\ lh_history_position >= 0
    /\ Len(llh_history) <= MaxHist
    /\ IF llh_history = <<>> THEN lh_history_position = 0
       ELSE lh_history_position < Len(llh_history)
    /\ (Len(llh_history) - lh_history_position) \in 0 .. Len(llh_history)

\* with three entries and the cursor on the oldest, an append erased the two
\* newer entries and left the cursor on the entry it pushed
C40_Witness ==
    /\ lh_op.name = "append"
    /\ lh_op.pos = 2
    /\ lh_op.top < Len(lh_op.rows)
    /\ Len(llh_history) = 2
    /\ lh_history_position = 0
====
